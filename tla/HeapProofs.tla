----------------------------- MODULE HeapProofs -----------------------------
(***************************************************************************)
(* The heap of mm/heap.c for every header size, alignment, split           *)
(* threshold, capacity and word size.  The lemmas follow the structure of  *)
(* the code: what a split (Carve) and a merge (Absorb) do to a list that   *)
(* tiles the arena, then kfree as a composition of merges, then the entry  *)
(* points; and the tree of drivers/hfs, whose nodes live in it: what the   *)
(* walk along the siblings meets, and that adding and removing nodes keeps *)
(* every list of siblings whole.                                           *)
(***************************************************************************)
EXTENDS Hfs, WellFoundedInduction, TLAPS

\* What an element of a well-formed list looks like.
LEMMA BlockType ==
    ASSUME NEW bs, IsList(bs), NEW b \in DOMAIN bs
    PROVE  /\ b \in Nat
           /\ bs[b].size \in Nat
           /\ bs[b].used \in BOOLEAN
           /\ bs[b].next \in Nat \cup {NULL}
           /\ bs[b] = [size |-> bs[b].size, used |-> bs[b].used, next |-> bs[b].next]
           /\ End(bs, b) \in Nat
           /\ End(bs, b) > b
BY HeapAssumption DEF IsList, Header, End

\* Writing the used field of one header.
LEMMA MarkLemma ==
    ASSUME NEW bs, IsList(bs), NEW b \in DOMAIN bs, NEW u \in BOOLEAN
    PROVE  /\ DOMAIN Mark(bs, b, u) = DOMAIN bs
           /\ \A c \in DOMAIN bs \ {b} : Mark(bs, b, u)[c] = bs[c]
           /\ Mark(bs, b, u)[b].size = bs[b].size
           /\ Mark(bs, b, u)[b].next = bs[b].next
           /\ Mark(bs, b, u)[b].used = u
           /\ IsList(Mark(bs, b, u))
<1> DEFINE new == Mark(bs, b, u)
           h == [bs[b] EXCEPT !.used = u]
<1>1. bs[b] \in Header
  BY DEF IsList
<1>2. /\ h.size = bs[b].size /\ h.next = bs[b].next /\ h.used = u
      /\ h \in Header
  BY <1>1 DEF Header
<1>3. new = [bs EXCEPT ![b] = h]
  BY DEF Mark
<1> HIDE DEF h, new
<1>4. /\ DOMAIN new = DOMAIN bs
      /\ \A c \in DOMAIN bs \ {b} : new[c] = bs[c]
      /\ new[b] = h
  BY <1>3
<1>5. IsList(new)
  BY <1>2, <1>3 DEF IsList
<1> QED BY <1>2, <1>4, <1>5 DEF new

-----------------------------------------------------------------------------
(* Splitting.                                                              *)

\* new is the list bs with block b handed out, trimmed to no less than n bytes.
IsGrant(bs, b, n, new) ==
    /\ IsList(new)
    /\ UsedBlocks(new) = UsedBlocks(bs) \cup {b}
    /\ new[b].size >= n
    /\ new[b].size \in Nat
    /\ \A c \in DOMAIN bs \ {b} : new[c] = bs[c]

\* Taking n bytes of block b leaves a list that still tiles the arena, with b
\* used and big enough and every other block as it was.
LEMMA CarveLemma ==
    ASSUME NEW bs, NEW top \in Nat, IsList(bs), Tiled(bs, top),
           NEW b \in DOMAIN bs, NEW n \in Nat, n <= bs[b].size
    PROVE  /\ Tiled(Carve(bs, b, n), top)
           /\ IsGrant(bs, b, n, Carve(bs, b, n))
           /\ b \in FreeBlocks(bs) /\ FreePairs(bs) = {} => FreePairs(Carve(bs, b, n)) = {}
<1> DEFINE leftover == bs[b].size - n
           split == b + HDR + n
           new == Carve(bs, b, n)
<1>1. CASE leftover >= MIN_SPLIT_SIZE
  <2>1. /\ leftover \in Nat /\ leftover >= HDR + 1 /\ split \in Nat
        /\ b < split /\ split < End(bs, b)
        /\ HDR \in Nat /\ HDR > 0
    BY <1>1, BlockType, HeapAssumption DEF MIN_SPLIT_SIZE, End
  <2>2. split \notin DOMAIN bs
    BY <2>1, BlockType DEF Tiled
  <2>3. new = [c \in DOMAIN bs \cup {split} |->
                 CASE c = split -> [size |-> leftover - HDR, used |-> FALSE, next |-> bs[b].next]
                   [] c = b     -> [size |-> n, used |-> TRUE, next |-> split]
                   [] OTHER     -> bs[c]]
    BY Zenon, <1>1 DEF Carve
  <2>4. /\ DOMAIN new = DOMAIN bs \cup {split}
        /\ new[split] = [size |-> leftover - HDR, used |-> FALSE, next |-> bs[b].next]
        /\ new[b] = [size |-> n, used |-> TRUE, next |-> split]
        /\ \A c \in DOMAIN bs \ {b} : new[c] = bs[c]
    BY <2>2, <2>3
  <2> HIDE DEF new
  <2>5. IsList(new)
    <3>0. /\ leftover - HDR \in Nat
          /\ bs[b].next \in Nat \cup {NULL}
          /\ DOMAIN bs \subseteq Nat
          /\ \A c \in DOMAIN bs : bs[c] \in Header
      BY <2>1, BlockType DEF IsList
    <3>a. new[split] \in Header
      BY <2>4, <3>0 DEF Header
    <3>b. new[b] \in Header
      BY <2>1, <2>4 DEF Header
    <3>1. \A c \in DOMAIN new : new[c] \in Header /\ c \in Nat
      BY Zenon, <2>1, <2>4, <3>0, <3>a, <3>b
    <3>2. new = [c \in DOMAIN new |-> new[c]]
      BY <2>3, <2>4
    <3> QED BY <3>1, <3>2 DEF IsList
  <2>6. /\ End(new, split) = End(bs, b)
        /\ End(new, b) = split
        /\ \A c \in DOMAIN bs \ {b} : End(new, c) = End(bs, c)
    BY <2>1, <2>4, BlockType DEF End
  <2>7. Tiled(new, top)
    <3>1. 0 \in DOMAIN new
      BY <2>4 DEF Tiled
    <3>2. ASSUME NEW c \in DOMAIN new
          PROVE  \/ End(new, c) = top /\ new[c].next = NULL
                 \/ End(new, c) \in DOMAIN new /\ new[c].next = End(new, c)
      <4>1. CASE c = split
        BY <2>4, <2>6, <4>1 DEF Tiled
      <4>2. CASE c = b
        BY <2>4, <2>6, <4>2
      <4>3. CASE c \in DOMAIN bs \ {b}
        BY <2>4, <2>6, <4>3 DEF Tiled
      <4> QED BY <2>4, <4>1, <4>2, <4>3
    <3>3. ASSUME NEW c \in DOMAIN new, NEW d \in DOMAIN new, c < d
          PROVE  End(new, c) <= d
      <4>1. CASE c = split
        BY <2>1, <2>4, <2>6, <3>3, <4>1, BlockType DEF Tiled
      <4>2. CASE c = b
        BY <2>1, <2>4, <2>6, <3>3, <4>2, BlockType DEF Tiled
      <4>3. CASE c \in DOMAIN bs \ {b} /\ d = split
        BY Z3T(60), <2>1, <2>4, <2>6, <3>3, <4>3, BlockType DEF Tiled
      <4>4. CASE c \in DOMAIN bs \ {b} /\ d \in DOMAIN bs
        BY <2>6, <3>3, <4>4 DEF Tiled
      <4> QED BY <2>4, <4>1, <4>2, <4>3, <4>4
    <3>4. \A c \in DOMAIN new : End(new, c) <= top
      BY <2>1, <2>4, <2>6, BlockType DEF Tiled
    <3> QED BY <3>1, <3>2, <3>3, <3>4 DEF Tiled
  <2>8. UsedBlocks(new) = UsedBlocks(bs) \cup {b}
    BY <2>2, <2>4 DEF UsedBlocks
  <2>9. new[b].size >= n /\ new[b].size \in Nat
    BY <2>4
  <2>10. IsGrant(bs, b, n, new)
    BY <2>4, <2>5, <2>8, <2>9 DEF IsGrant
  <2>11. ASSUME b \in FreeBlocks(bs), FreePairs(bs) = {}, NEW c \in FreePairs(new)
         PROVE  FALSE
    <3>1. FreeBlocks(new) = (FreeBlocks(bs) \ {b}) \cup {split}
      BY <2>2, <2>4 DEF FreeBlocks
    <3>2. \A d \in DOMAIN bs : bs[d].next # split
      BY <2>1, <2>2 DEF Tiled, NULL
    <3>3. \A d \in FreeBlocks(bs) : bs[d].next \notin FreeBlocks(new)
      BY <2>11, <3>1, <3>2 DEF FreePairs, FreeBlocks
    <3>4. c \in FreeBlocks(new) /\ new[c].next \in FreeBlocks(new)
      BY <2>11 DEF FreePairs
    <3>5. CASE c = split
      BY <2>4, <2>11, <3>3, <3>4, <3>5
    <3>6. CASE c # split
      BY <2>4, <3>1, <3>3, <3>4, <3>6 DEF FreeBlocks
    <3> QED BY <3>5, <3>6
  <2> QED BY <2>7, <2>10, <2>11 DEF new
<1>2. CASE ~(leftover >= MIN_SPLIT_SIZE)
  <2>1. new = Mark(bs, b, TRUE)
    BY Zenon, <1>2 DEF Carve
  <2>2. /\ DOMAIN new = DOMAIN bs
        /\ \A c \in DOMAIN bs \ {b} : new[c] = bs[c]
        /\ new[b].size = bs[b].size /\ new[b].next = bs[b].next /\ new[b].used = TRUE
        /\ IsList(new)
    <3>1. TRUE \in BOOLEAN
      OBVIOUS
    <3> HIDE DEF new
    <3>2. /\ DOMAIN Mark(bs, b, TRUE) = DOMAIN bs
          /\ \A c \in DOMAIN bs \ {b} : Mark(bs, b, TRUE)[c] = bs[c]
          /\ Mark(bs, b, TRUE)[b].size = bs[b].size
          /\ Mark(bs, b, TRUE)[b].next = bs[b].next
          /\ Mark(bs, b, TRUE)[b].used = TRUE
          /\ IsList(Mark(bs, b, TRUE))
      BY ZenonT(60), <3>1, MarkLemma
    <3> QED BY Zenon, <2>1, <3>2
  <2> HIDE DEF new
  <2>4. \A c \in DOMAIN new : End(new, c) = End(bs, c) /\ new[c].next = bs[c].next
    BY <2>2 DEF End
  <2>5. Tiled(new, top)
    BY <2>2, <2>4 DEF Tiled
  <2>6. UsedBlocks(new) = UsedBlocks(bs) \cup {b}
    BY <2>2 DEF UsedBlocks
  <2>7. bs[b].size \in Nat
    BY BlockType
  <2>8. IsGrant(bs, b, n, new)
    BY <2>2, <2>6, <2>7 DEF IsGrant
  <2>9. FreeBlocks(new) \subseteq FreeBlocks(bs)
    BY <2>2 DEF FreeBlocks
  <2>10. FreePairs(new) \subseteq FreePairs(bs)
    BY <2>4, <2>9 DEF FreePairs, FreeBlocks
  <2> QED BY <2>5, <2>8, <2>10 DEF new
<1> QED BY <1>1, <1>2

-----------------------------------------------------------------------------
(* Merging.                                                                *)

\* new is the list bs with the block after b appended to b.
IsMerge(bs, b, new) ==
    /\ IsList(new)
    /\ DOMAIN new = DOMAIN bs \ {bs[b].next}
    /\ b \in DOMAIN new
    /\ FreeBlocks(new) = FreeBlocks(bs) \ {bs[b].next}
    /\ UsedBlocks(new) = UsedBlocks(bs)
    /\ \A c \in DOMAIN bs \ {b, bs[b].next} : new[c] = bs[c]
    /\ new[b].next = bs[bs[b].next].next
    /\ bs[b].next \in FreeBlocks(bs)

\* Appending the free block after b to b keeps the tiling and the used blocks.
LEMMA AbsorbLemma ==
    ASSUME NEW bs, NEW top \in Nat, IsList(bs), Tiled(bs, top),
           NEW b \in DOMAIN bs, NextIsFree(bs, b)
    PROVE  Tiled(Absorb(bs, b), top) /\ IsMerge(bs, b, Absorb(bs, b))
<1> DEFINE n == bs[b].next
           new == Absorb(bs, b)
           h == [size |-> bs[b].size + bs[n].size + HDR,
                 used |-> bs[b].used, next |-> bs[n].next]
<1>1. /\ n \in DOMAIN bs /\ n = End(bs, b) /\ ~bs[n].used
      /\ b \in Nat /\ n \in Nat /\ b < n
      /\ HDR \in Nat
  BY BlockType, HeapAssumption DEF NextIsFree, Tiled
<1>2. /\ bs[b] \in Header /\ bs[n] \in Header
      /\ bs[b].size \in Nat /\ bs[n].size \in Nat
      /\ bs[n].next \in Nat \cup {NULL}
      /\ bs[b].used \in BOOLEAN
  BY <1>1, BlockType DEF IsList
<1>3. /\ h.size = bs[b].size + bs[n].size + HDR
      /\ h.next = bs[n].next
      /\ h.used = bs[b].used
      /\ h \in Header
  BY <1>1, <1>2 DEF Header
<1>4. new = [c \in DOMAIN bs \ {n} |-> IF c = b THEN h ELSE bs[c]]
  BY DEF Absorb
<1> HIDE DEF h
<1>5. /\ DOMAIN new = DOMAIN bs \ {n}
      /\ b \in DOMAIN new
      /\ new[b] = h
      /\ \A c \in DOMAIN bs \ {b, n} : new[c] = bs[c]
  BY <1>1, <1>4
<1>6. IsList(new)
  <2>1. \A c \in DOMAIN new : new[c] \in Header /\ c \in Nat
    BY <1>3, <1>5 DEF IsList
  <2>2. new = [c \in DOMAIN new |-> new[c]]
    BY <1>4, <1>5
  <2> HIDE DEF new
  <2> QED BY <2>1, <2>2 DEF IsList
<1> HIDE DEF new
<1>7. /\ End(new, b) = End(bs, n)
      /\ \A c \in DOMAIN bs \ {b, n} : End(new, c) = End(bs, c)
  BY <1>1, <1>2, <1>3, <1>5 DEF End
<1>8. Tiled(new, top)
  <2>1. 0 \in DOMAIN new
    BY <1>1, <1>5 DEF Tiled
  <2>2. ASSUME NEW c \in DOMAIN bs, c # b
        PROVE  End(bs, c) # n
    <3>1. CASE c < b
      BY <1>1, <3>1 DEF Tiled
    <3>2. CASE b < c
      BY <1>1, <3>2, BlockType DEF Tiled
    <3> QED BY <1>1, <2>2, <3>1, <3>2, BlockType
  <2>3. ASSUME NEW c \in DOMAIN new
        PROVE  \/ End(new, c) = top /\ new[c].next = NULL
               \/ End(new, c) \in DOMAIN new /\ new[c].next = End(new, c)
    <3>1. CASE c = b
      <4>1. End(bs, n) # n
        BY <1>1, BlockType
      <4> QED BY <1>1, <1>3, <1>5, <1>7, <3>1, <4>1 DEF Tiled
    <3>2. CASE c # b
      BY <1>5, <1>7, <2>2, <3>2 DEF Tiled
    <3> QED BY <3>1, <3>2
  <2>4. ASSUME NEW c \in DOMAIN new, NEW d \in DOMAIN new, c < d
        PROVE  End(new, c) <= d
    <3>1. CASE c = b
      <4>1. n <= d
        BY <1>1, <1>5, <2>4, <3>1 DEF Tiled
      <4>2. n < d
        BY <1>1, <1>5, <4>1, BlockType
      <4> QED BY <1>1, <1>5, <1>7, <3>1, <4>2 DEF Tiled
    <3>2. CASE c # b
      BY <1>5, <1>7, <2>4, <3>2 DEF Tiled
    <3> QED BY <3>1, <3>2
  <2>5. \A c \in DOMAIN new : End(new, c) <= top
    BY <1>1, <1>5, <1>7 DEF Tiled
  <2> QED BY <2>1, <2>3, <2>4, <2>5 DEF Tiled
<1>9. /\ FreeBlocks(new) = FreeBlocks(bs) \ {n}
      /\ UsedBlocks(new) = UsedBlocks(bs)
      /\ n \in FreeBlocks(bs)
  BY <1>1, <1>3, <1>5 DEF FreeBlocks, UsedBlocks
<1>10. new[b].next = bs[n].next
  BY <1>3, <1>5
<1>11. IsMerge(bs, b, new)
  BY <1>5, <1>6, <1>9, <1>10 DEF IsMerge
<1> QED BY <1>8, <1>11 DEF new

\* A merge removes the pair that b and its successor made; b inherits the pair
\* its successor made.
LEMMA MergePairs ==
    ASSUME NEW bs, NEW b, NEW new, IsMerge(bs, b, new)
    PROVE  \A c \in FreePairs(new) :
              IF c = b THEN bs[b].next \in FreePairs(bs) ELSE c \in FreePairs(bs)
<1> DEFINE n == bs[b].next
<1>1. /\ FreeBlocks(new) = FreeBlocks(bs) \ {n}
      /\ DOMAIN new = DOMAIN bs \ {n}
      /\ \A c \in DOMAIN bs \ {b, n} : new[c] = bs[c]
      /\ new[b].next = bs[n].next
      /\ n \in FreeBlocks(bs)
  BY DEF IsMerge
<1> HIDE DEF n
<1>2. ASSUME NEW c \in FreePairs(new)
      PROVE  IF c = b THEN n \in FreePairs(bs) ELSE c \in FreePairs(bs)
  <2>1. c \in FreeBlocks(new) /\ new[c].next \in FreeBlocks(new) /\ c \in DOMAIN new
    BY DEF FreePairs, FreeBlocks
  <2>2. CASE c = b
    BY <1>1, <2>1, <2>2 DEF FreePairs
  <2>3. CASE c # b
    BY <1>1, <2>1, <2>3 DEF FreePairs
  <2> QED BY <2>2, <2>3
<1> QED BY <1>2 DEF n

\* new is a fully merged list with the used blocks U of bs, unchanged.
IsSettled(bs, U, new) ==
    /\ IsList(new)
    /\ FreePairs(new) = {}
    /\ UsedBlocks(new) = U
    /\ \A c \in U : new[c] = bs[c]

\* If b makes the only pair of free blocks, merging b with a free successor
\* leaves none.
LEMMA SettleLemma ==
    ASSUME NEW bs, NEW top \in Nat, IsList(bs), Tiled(bs, top),
           NEW b \in FreeBlocks(bs), FreePairs(bs) \subseteq {b}
    PROVE  /\ Tiled(AbsorbFreeNext(bs, b), top)
           /\ IsSettled(bs, UsedBlocks(bs), AbsorbFreeNext(bs, b))
<1> DEFINE n == bs[b].next
           new == Absorb(bs, b)
<1>0. b \in DOMAIN bs /\ b \in Nat /\ b # NULL
  BY BlockType DEF FreeBlocks, NULL
<1>1. CASE NextIsFree(bs, b)
  <2>1. Tiled(new, top) /\ IsMerge(bs, b, new)
    BY <1>0, <1>1, AbsorbLemma
  <2> HIDE DEF new
  <2>2. n \in DOMAIN bs /\ n # b
    BY <1>0, <2>1, BlockType DEF IsMerge, FreeBlocks
  <2>3. n \notin FreePairs(bs)
    BY <2>2
  <2>4. FreePairs(new) = {}
    <3> SUFFICES ASSUME NEW c \in FreePairs(new) PROVE FALSE
      OBVIOUS
    <3>1. IF c = b THEN n \in FreePairs(bs) ELSE c \in FreePairs(bs)
      BY <2>1, MergePairs
    <3> QED BY <2>3, <3>1
  <2>5. \A c \in UsedBlocks(bs) : new[c] = bs[c]
    BY <2>1 DEF IsMerge, UsedBlocks, FreeBlocks
  <2>6. IsSettled(bs, UsedBlocks(bs), new)
    BY <2>1, <2>4, <2>5 DEF IsSettled, IsMerge
  <2> QED BY <1>1, <2>1, <2>6 DEF AbsorbFreeNext, new
<1>2. CASE ~NextIsFree(bs, b)
  <2>1. b \notin FreePairs(bs)
    <3> SUFFICES ASSUME b \in FreePairs(bs) PROVE FALSE
      OBVIOUS
    <3>1. n \in DOMAIN bs /\ ~bs[n].used
      BY DEF FreePairs, FreeBlocks
    <3>2. n # NULL
      BY <3>1, BlockType DEF NULL
    <3> QED BY <1>2, <3>1, <3>2 DEF NextIsFree
  <2>2. FreePairs(bs) = {}
    BY <2>1
  <2> QED BY <1>2, <2>2 DEF AbsorbFreeNext, IsSettled
<1> QED BY <1>1, <1>2

\* Marking a used block free can only make pairs with its two neighbours.
LEMMA UnmarkLemma ==
    ASSUME NEW bs, NEW top \in Nat, IsList(bs), Tiled(bs, top),
           FreePairs(bs) = {}, NEW b \in UsedBlocks(bs)
    PROVE  LET freed == Mark(bs, b, FALSE)
           IN  /\ IsList(freed)
               /\ Tiled(freed, top)
               /\ DOMAIN freed = DOMAIN bs
               /\ FreeBlocks(freed) = FreeBlocks(bs) \cup {b}
               /\ UsedBlocks(freed) = UsedBlocks(bs) \ {b}
               /\ \A c \in DOMAIN bs : freed[c].next = bs[c].next
               /\ \A c \in DOMAIN bs \ {b} : freed[c] = bs[c]
               /\ \A c \in FreePairs(freed) \ {b} : bs[c].next = b /\ c \in FreeBlocks(bs)
<1> DEFINE freed == Mark(bs, b, FALSE)
<1>0. b \in DOMAIN bs /\ FALSE \in BOOLEAN
  BY DEF UsedBlocks
<1>1. /\ DOMAIN Mark(bs, b, FALSE) = DOMAIN bs
      /\ \A c \in DOMAIN bs \ {b} : Mark(bs, b, FALSE)[c] = bs[c]
      /\ Mark(bs, b, FALSE)[b].size = bs[b].size
      /\ Mark(bs, b, FALSE)[b].next = bs[b].next
      /\ Mark(bs, b, FALSE)[b].used = FALSE
      /\ IsList(Mark(bs, b, FALSE))
  BY ZenonT(60), <1>0, MarkLemma
<1>2. freed = Mark(bs, b, FALSE)
  OBVIOUS
<1> HIDE DEF freed
<1>3. \A c \in DOMAIN bs : freed[c].next = bs[c].next /\ End(freed, c) = End(bs, c)
  BY Zenon, <1>0, <1>1, <1>2 DEF End
<1>4. Tiled(freed, top)
  BY ZenonT(60), <1>1, <1>2, <1>3 DEF Tiled
<1>5. /\ FreeBlocks(freed) = FreeBlocks(bs) \cup {b}
      /\ UsedBlocks(freed) = UsedBlocks(bs) \ {b}
  BY Zenon, <1>0, <1>1, <1>2 DEF FreeBlocks, UsedBlocks
<1>6. ASSUME NEW c \in FreePairs(freed), c # b
      PROVE  bs[c].next = b /\ c \in FreeBlocks(bs)
  <2>1. /\ c \in FreeBlocks(bs)
        /\ c \in DOMAIN bs
        /\ freed[c].next \in FreeBlocks(bs) \cup {b}
    BY <1>5, <1>6 DEF FreePairs, FreeBlocks
  <2>2. bs[c].next \notin FreeBlocks(bs)
    BY <2>1 DEF FreePairs
  <2> QED BY <1>3, <2>1, <2>2
<1> QED BY Zenon, <1>1, <1>2, <1>3, <1>4, <1>5, <1>6

\* kfree takes b out of the used blocks, leaves the others alone, keeps the
\* tiling and merges all that can be merged.
LEMMA ReleaseLemma ==
    ASSUME NEW bs, NEW top \in Nat, IsList(bs), Tiled(bs, top),
           FreePairs(bs) = {}, NEW b \in UsedBlocks(bs)
    PROVE  /\ Tiled(Release(bs, b), top)
           /\ IsSettled(bs, UsedBlocks(bs) \ {b}, Release(bs, b))
<1> DEFINE freed == Mark(bs, b, FALSE)
           prev  == Previous(bs, b) \cap FreeBlocks(bs)
<1>1. /\ IsList(freed)
      /\ Tiled(freed, top)
      /\ DOMAIN freed = DOMAIN bs
      /\ FreeBlocks(freed) = FreeBlocks(bs) \cup {b}
      /\ UsedBlocks(freed) = UsedBlocks(bs) \ {b}
      /\ \A c \in DOMAIN bs : freed[c].next = bs[c].next
      /\ \A c \in DOMAIN bs \ {b} : freed[c] = bs[c]
      /\ \A c \in FreePairs(freed) \ {b} : bs[c].next = b /\ c \in FreeBlocks(bs)
  BY Zenon, UnmarkLemma
<1>2. Release(bs, b) = IF prev = {} THEN AbsorbFreeNext(freed, b)
                       ELSE AbsorbFreeNext(Absorb(freed, CHOOSE q \in prev : TRUE),
                                           CHOOSE q \in prev : TRUE)
  BY DEF Release
<1> HIDE DEF freed
<1>3. /\ b \in DOMAIN bs /\ b \in Nat /\ b # NULL
      /\ \A c \in UsedBlocks(bs) \ {b} : freed[c] = bs[c]
  BY <1>1, BlockType DEF UsedBlocks, NULL
<1>4. CASE prev = {}
  <2>1. FreePairs(freed) \subseteq {b}
    BY <1>1, <1>4 DEF Previous, FreeBlocks
  <2>2. /\ Tiled(AbsorbFreeNext(freed, b), top)
        /\ IsSettled(freed, UsedBlocks(freed), AbsorbFreeNext(freed, b))
    BY <1>1, <2>1, SettleLemma
  <2> QED BY <1>1, <1>2, <1>3, <1>4, <2>2 DEF IsSettled
<1>5. CASE prev # {}
  <2> DEFINE p == CHOOSE q \in prev : TRUE
             merged == Absorb(freed, p)
  <2>1. p \in prev
    BY <1>5
  <2>2. Release(bs, b) = AbsorbFreeNext(merged, p)
    BY <1>2, <1>5
  <2> HIDE DEF p
  <2>3. /\ p \in DOMAIN bs /\ bs[p].next = b /\ p \in FreeBlocks(bs) /\ p # b
        /\ freed[p].next = b
        /\ ~freed[b].used
    BY <1>1, <1>3, <2>1 DEF Previous, FreeBlocks, UsedBlocks
  <2>4. NextIsFree(freed, p)
    BY <1>3, <2>3 DEF NextIsFree
  <2>5. Tiled(merged, top) /\ IsMerge(freed, p, merged)
    BY <1>1, <2>3, <2>4, AbsorbLemma
  <2> HIDE DEF merged
  <2>6. /\ IsList(merged)
        /\ DOMAIN merged = DOMAIN bs \ {b}
        /\ FreeBlocks(merged) = FreeBlocks(bs)
        /\ UsedBlocks(merged) = UsedBlocks(bs) \ {b}
        /\ \A c \in DOMAIN bs \ {p, b} : merged[c] = freed[c]
    BY <1>1, <2>3, <2>5 DEF IsMerge, FreeBlocks, UsedBlocks
  <2>7. FreePairs(merged) \subseteq {p}
    <3> SUFFICES ASSUME NEW c \in FreePairs(merged), c # p PROVE FALSE
      OBVIOUS
    <3>1. /\ c \in DOMAIN merged
          /\ merged[c].next \in DOMAIN merged
      BY DEF FreePairs, FreeBlocks
    <3>2. c \in FreePairs(freed)
      BY <2>5, MergePairs
    <3>3. freed[c].next = b
      BY <1>1, <2>6, <3>1, <3>2
    <3> QED BY <2>6, <3>1, <3>3
  <2>8. /\ Tiled(AbsorbFreeNext(merged, p), top)
        /\ IsSettled(merged, UsedBlocks(merged), AbsorbFreeNext(merged, p))
    BY Zenon, <2>3, <2>5, <2>6, <2>7, SettleLemma
  <2>9. \A c \in UsedBlocks(bs) \ {b} : merged[c] = bs[c]
    BY <1>3, <2>3, <2>6 DEF UsedBlocks, FreeBlocks
  <2> QED BY <2>2, <2>6, <2>8, <2>9 DEF IsSettled
<1> QED BY <1>4, <1>5

-----------------------------------------------------------------------------
(* The entry points.                                                       *)

\* mm_align_size yields a number of bytes.
LEMMA AlignNat ==
    ASSUME NEW n \in Nat
    PROVE  AlignSize(n) \in Nat
<1> DEFINE up == (n + ALIGN - 1) % WORD
<1>1. up \in Nat
  BY HeapAssumption
<1> HIDE DEF up
<1>2. up - (up % ALIGN) \in Nat
  BY <1>1, HeapAssumption
<1> QED BY <1>2, HeapAssumption DEF AlignSize, up

Inv == TypeOK /\ Tiling /\ Coalesced /\ HeldIsUsed

\* The part of it that is about the list, whatever sizes the callers may ask for.
Sound ==
    /\ capacity \in Nat
    /\ IsList(blocks)
    /\ Tiling /\ Coalesced /\ HeldIsUsed

LEMMA InitInv == Init => Inv
BY DEF Init, Inv, TypeOK, IsList, Tiling, Coalesced, HeldIsUsed, NoHeap, NoneHeld,
       FreePairs, FreeBlocks, UsedBlocks

\* A step of kmalloc that finds a block.
LEMMA KmallocStep ==
    ASSUME Inv, NEW size \in Sizes, NEW b \in FirstFit(blocks, AlignSize(size)),
           blocks' = Carve(blocks, b, AlignSize(size))
    PROVE  /\ capacity # 0 /\ capacity \in Nat
           /\ b \in FreeBlocks(blocks) /\ b \in Nat
           /\ Tiled(blocks', capacity)
           /\ FreePairs(blocks') = {}
           /\ IsGrant(blocks, b, AlignSize(size), blocks')
<1>1. /\ b \in DOMAIN blocks /\ b \in FreeBlocks(blocks)
      /\ AlignSize(size) <= blocks[b].size
      /\ AlignSize(size) \in Nat
      /\ IsList(blocks) /\ capacity \in Nat
      /\ b \in Nat
  BY AlignNat, HeapAssumption DEF FirstFit, Fits, FreeBlocks, Inv, TypeOK, IsList
<1>2. capacity # 0 /\ Tiled(blocks, capacity) /\ FreePairs(blocks) = {}
  BY <1>1 DEF Inv, Tiling, Coalesced
<1> QED BY <1>1, <1>2, CarveLemma

\* A step of kfree.
LEMMA KfreeStep ==
    ASSUME Inv, NEW ptr \in DOMAIN held, blocks' = Release(blocks, ptr - HDR)
    PROVE  /\ capacity # 0
           /\ ptr - HDR \in UsedBlocks(blocks) /\ ptr \in Nat
           /\ Tiled(blocks', capacity)
           /\ IsSettled(blocks, UsedBlocks(blocks) \ {ptr - HDR}, blocks')
<1>1. PICK b \in UsedBlocks(blocks) : ptr = b + HDR
  BY DEF Inv, HeldIsUsed
<1>2. b \in DOMAIN blocks /\ b \in Nat /\ ptr - HDR = b /\ ptr \in Nat
  BY <1>1, HeapAssumption DEF Inv, TypeOK, IsList, UsedBlocks
<1>3. /\ capacity # 0 /\ Tiled(blocks, capacity) /\ FreePairs(blocks) = {}
      /\ IsList(blocks) /\ capacity \in Nat
  BY <1>2 DEF Inv, Tiling, Coalesced, TypeOK
<1> QED BY <1>1, <1>2, <1>3, ReleaseLemma

\* mem_init makes one free block of the arena.
LEMMA MemInitLemma ==
    ASSUME NEW ram \in RamSizes, MemInit(ram)
    PROVE  /\ capacity' \in Nat /\ capacity' # 0
           /\ IsList(blocks') /\ Tiled(blocks', capacity')
           /\ FreePairs(blocks') = {} /\ UsedBlocks(blocks') = {}
<1>1. /\ capacity' \in Nat /\ capacity' >= HDR /\ capacity' # 0 /\ capacity' - HDR \in Nat
      /\ HDR \in Nat
  BY HeapAssumption DEF MemInit, MaxOf, MinOf
<1> DEFINE h == [size |-> capacity' - HDR, used |-> FALSE, next |-> NULL]
<1>2. blocks' = [b \in {0} |-> h]
  BY DEF MemInit
<1>3. h \in Header /\ h.size = capacity' - HDR /\ h.used = FALSE /\ h.next = NULL
  BY Zenon, <1>1 DEF Header
<1> HIDE DEF h
<1>4. DOMAIN blocks' = {0} /\ blocks'[0] = h
  BY <1>2
<1>5. IsList(blocks')
  BY <1>2, <1>3, <1>4 DEF IsList
<1>6. Tiled(blocks', capacity')
  BY <1>1, <1>3, <1>4 DEF Tiled, End
<1>7. FreePairs(blocks') = {} /\ UsedBlocks(blocks') = {}
  BY <1>3, <1>4 DEF FreePairs, FreeBlocks, UsedBlocks, NULL
<1> QED BY <1>1, <1>5, <1>6, <1>7

LEMMA NextInv == Inv /\ [Next]_vars => Inv'
<1> SUFFICES ASSUME Inv, [Next]_vars PROVE Inv'
  OBVIOUS
<1>1. ASSUME NEW ram \in RamSizes, MemInit(ram) PROVE Inv'
  <2>1. DOMAIN held = {} /\ held' = held
    BY <1>1 DEF MemInit, Inv, Tiling, HeldIsUsed, UsedBlocks
  <2> QED
    BY <1>1, <2>1, MemInitLemma DEF Inv, TypeOK, Tiling, Coalesced, HeldIsUsed
<1>2. ASSUME NEW size \in Sizes, Kmalloc(size) PROVE Inv'
  <2>1. CASE UNCHANGED vars
    BY <2>1 DEF vars, Inv, TypeOK, Tiling, Coalesced, HeldIsUsed
  <2>2. CASE ~UNCHANGED vars
    <3>1. PICK b \in FirstFit(blocks, AlignSize(size)) :
              /\ blocks' = Carve(blocks, b, AlignSize(size))
              /\ held' = With(held, b + HDR, size)
              /\ capacity' = capacity
      BY <1>2, <2>2 DEF Kmalloc
    <3>2. /\ capacity # 0 /\ b \in Nat
          /\ Tiled(blocks', capacity)
          /\ FreePairs(blocks') = {}
          /\ IsGrant(blocks, b, AlignSize(size), blocks')
      BY <3>1, KmallocStep
    <3>3. UsedBlocks(blocks') = UsedBlocks(blocks) \cup {b} /\ IsList(blocks')
      BY <3>2 DEF IsGrant
    <3>4. /\ DOMAIN held' = DOMAIN held \cup {b + HDR}
          /\ held' \in [DOMAIN held' -> Sizes]
          /\ DOMAIN held' \subseteq Nat
      BY <3>1, <3>2, HeapAssumption DEF With, Inv, TypeOK
    <3>5. HeldIsUsed'
      BY <3>3, <3>4 DEF Inv, HeldIsUsed
    <3> QED
      BY <3>1, <3>2, <3>3, <3>4, <3>5 DEF Inv, TypeOK, Tiling, Coalesced
  <2> QED BY <2>1, <2>2
<1>3. ASSUME NEW ptr \in DOMAIN held, Kfree(ptr) PROVE Inv'
  <2>1. /\ blocks' = Release(blocks, ptr - HDR)
        /\ held' = Without(held, ptr)
        /\ capacity' = capacity
    BY <1>3 DEF Kfree
  <2>2. /\ capacity # 0
        /\ ptr - HDR \in UsedBlocks(blocks) /\ ptr \in Nat
        /\ Tiled(blocks', capacity)
        /\ IsSettled(blocks, UsedBlocks(blocks) \ {ptr - HDR}, blocks')
    BY <2>1, KfreeStep
  <2>3. /\ IsList(blocks') /\ FreePairs(blocks') = {}
        /\ UsedBlocks(blocks') = UsedBlocks(blocks) \ {ptr - HDR}
    BY <2>2 DEF IsSettled
  <2>4. /\ DOMAIN held' = DOMAIN held \ {ptr}
        /\ held' \in [DOMAIN held' -> Sizes]
        /\ DOMAIN held' \subseteq Nat
    BY <2>1 DEF Without, Inv, TypeOK
  <2>5. \A b \in UsedBlocks(blocks) : b \in Nat
    BY DEF Inv, TypeOK, IsList, UsedBlocks
  <2>6. HeldIsUsed'
    BY <2>2, <2>3, <2>4, <2>5, HeapAssumption DEF Inv, HeldIsUsed
  <2> QED
    BY <2>1, <2>2, <2>3, <2>4, <2>6 DEF Inv, TypeOK, Tiling, Coalesced
<1>4. CASE UNCHANGED vars
  BY <1>4 DEF vars, Inv, TypeOK, Tiling, Coalesced, HeldIsUsed
<1> QED
  BY <1>1, <1>2, <1>3, <1>4 DEF Next

\* Whatever is allocated and freed, in whatever order: the list tiles the
\* arena, free neighbours are merged, and the used blocks are the live ones.
THEOREM Safety == Spec => [](TypeOK /\ Tiling /\ Coalesced /\ HeldIsUsed)
BY InitInv, NextInv, PTL DEF Spec, Inv

\* The four parts of it by themselves.  Headers stay headers and live pointers
\* stay pointers (heap.c, blocks.h).
THEOREM HeapTypes == Spec => []TypeOK
BY Safety, PTL

\* Splits and merges lose no byte of the arena and make none up (heap.c:52-61,
\* 87-97).
THEOREM HeapTiles == Spec => []Tiling
BY Safety, PTL

\* No kfree leaves two free neighbours (heap.c:87-97).
THEOREM HeapCoalesces == Spec => []Coalesced
BY Safety, PTL

\* The blocks marked used are those some caller holds (heap.c:49-66, 84-85).
THEOREM HeapOwned == Spec => []HeldIsUsed
BY Safety, PTL

\* The list is sound after every sequence of calls (heap.c).
THEOREM ListKept == Spec => []ListSound
<1>1. Inv => ListSound BY DEF Inv, ListSound
<1> QED BY <1>1, InitInv, NextInv, PTL DEF Spec

-----------------------------------------------------------------------------
(* What the inductive invariant entails.                                   *)

\* With nothing live every block is free, so no block has a successor, and
\* the block at 0 reaches the end of the arena by itself.
LEMMA InvWhole == Inv => FreedHeapIsWhole
<1> SUFFICES ASSUME Inv, capacity # 0, DOMAIN held = {}
             PROVE  blocks = [b \in {0} |-> [size |-> capacity - HDR, used |-> FALSE, next |-> NULL]]
  BY DEF FreedHeapIsWhole
<1>1. Tiled(blocks, capacity) /\ IsList(blocks) /\ capacity \in Nat
  BY DEF Inv, Tiling, TypeOK
<1>2. UsedBlocks(blocks) = {}
  BY DEF Inv, HeldIsUsed
<1>3. FreeBlocks(blocks) = DOMAIN blocks
  BY Zenon, <1>2 DEF UsedBlocks, FreeBlocks
<1>4. \A b \in DOMAIN blocks : blocks[b].next \notin DOMAIN blocks
  BY <1>3 DEF Inv, Coalesced, FreePairs
<1>5. \A b \in DOMAIN blocks : blocks[b].next = NULL /\ End(blocks, b) = capacity
  BY <1>1, <1>4 DEF Tiled
<1>6. \A b \in DOMAIN blocks : b \in Nat /\ blocks[b] \in Header
  BY <1>1 DEF IsList
<1>7. 0 \in DOMAIN blocks
  BY <1>1 DEF Tiled
<1>8. ASSUME NEW c \in DOMAIN blocks PROVE c = 0
  <2>1. c # 0 => End(blocks, 0) <= c
    BY <1>1, <1>6, <1>7 DEF Tiled
  <2>2. c \in Nat /\ blocks[c].size \in Nat /\ HDR \in Nat \ {0}
    BY <1>6, HeapAssumption DEF Header
  <2>3. End(blocks, c) > c
    BY <2>2 DEF End
  <2> QED BY <1>1, <1>5, <1>7, <2>1, <2>2, <2>3
<1>9. DOMAIN blocks = {0}
  BY <1>7, <1>8
<1>10. blocks[0] = [size |-> blocks[0].size, used |-> blocks[0].used, next |-> blocks[0].next]
  BY <1>6, <1>7 DEF Header
<1>11. blocks[0].size = capacity - HDR
  BY <1>1, <1>5, <1>6, <1>7, HeapAssumption DEF End, Header
<1>12. blocks[0].used = FALSE
  BY <1>2, <1>6, <1>7 DEF UsedBlocks, Header
<1>13. blocks[0] = [size |-> capacity - HDR, used |-> FALSE, next |-> NULL]
  BY <1>5, <1>7, <1>10, <1>11, <1>12
<1>14. blocks = [b \in {0} |-> blocks[b]]
  BY <1>1, <1>9 DEF IsList
<1> QED BY <1>13, <1>14

\* Freeing everything, in any order, gives back the heap of mem_init: the
\* merges of kfree lose no byte and leave no seam.
THEOREM Whole == Spec => []FreedHeapIsWhole
BY InitInv, NextInv, InvWhole, PTL DEF Spec

LEMMA StepKeeps == Inv /\ [Next]_vars => [LiveKept]_vars
<1> SUFFICES ASSUME Inv, Next PROVE LiveKept \/ UNCHANGED vars
  OBVIOUS
<1>0. /\ \A p \in DOMAIN held : p - HDR \in UsedBlocks(blocks) /\ p \in Nat
      /\ HDR \in Nat
  BY HeapAssumption DEF Inv, HeldIsUsed, TypeOK, IsList, UsedBlocks
<1>1. ASSUME NEW ram \in RamSizes, MemInit(ram) PROVE LiveKept
  BY <1>1 DEF MemInit, LiveKept, Inv, Tiling, HeldIsUsed, UsedBlocks
<1>2. ASSUME NEW size \in Sizes, Kmalloc(size), ~UNCHANGED vars PROVE LiveKept
  <2>1. PICK b \in FirstFit(blocks, AlignSize(size)) :
            blocks' = Carve(blocks, b, AlignSize(size))
    BY <1>2 DEF Kmalloc
  <2>2. b \in FreeBlocks(blocks) /\ IsGrant(blocks, b, AlignSize(size), blocks')
    BY <2>1, KmallocStep
  <2>3. \A c \in UsedBlocks(blocks) : c \in UsedBlocks(blocks') /\ blocks'[c] = blocks[c]
    BY <2>2 DEF IsGrant, UsedBlocks, FreeBlocks
  <2> QED BY <1>0, <2>3 DEF LiveKept
<1>3. ASSUME NEW ptr \in DOMAIN held, Kfree(ptr) PROVE LiveKept
  <2>1. blocks' = Release(blocks, ptr - HDR) /\ held' = Without(held, ptr)
    BY <1>3 DEF Kfree
  <2>2. IsSettled(blocks, UsedBlocks(blocks) \ {ptr - HDR}, blocks')
    BY <2>1, KfreeStep
  <2>3. \A c \in UsedBlocks(blocks) \ {ptr - HDR} :
            c \in UsedBlocks(blocks') /\ blocks'[c] = blocks[c]
    BY <2>2 DEF IsSettled
  <2>4. \A p \in DOMAIN held' : p \in DOMAIN held /\ p # ptr
    BY <2>1 DEF Without
  <2>5. ASSUME NEW p \in DOMAIN held \cap DOMAIN held'
        PROVE  p - HDR \in UsedBlocks(blocks) \ {ptr - HDR}
    BY <1>0, <2>4
  <2> QED BY <2>3, <2>5 DEF LiveKept
<1> QED
  BY <1>1, <1>2, <1>3 DEF Next

\* No call for one allocation moves, shrinks or frees another one.
THEOREM Untouched == Spec => OthersUntouched
BY InitInv, NextInv, StepKeeps, PTL DEF Spec, OthersUntouched

-----------------------------------------------------------------------------
(* The heap implements the allocator its callers were promised.            *)

\* Payloads of live blocks lie in the arena and do not overlap.
LEMMA PayloadsApart == Sound => Promise!Disjoint /\ Promise!Inside
<1> SUFFICES ASSUME Sound PROVE Promise!Disjoint /\ Promise!Inside
  OBVIOUS
<1>1. /\ \A p \in DOMAIN held : p - HDR \in DOMAIN blocks /\ p \in Nat
      /\ HDR \in Nat
  BY HeapAssumption DEF Sound, HeldIsUsed, IsList, UsedBlocks
<1>2. \A b \in DOMAIN blocks : b \in Nat /\ blocks[b].size \in Nat
  BY DEF Sound, IsList, Header
<1>3. DOMAIN held # {} => Tiled(blocks, capacity) /\ capacity \in Nat
  BY <1>1 DEF Sound, Tiling
<1>4. ASSUME NEW p \in DOMAIN held, NEW q \in DOMAIN held, p < q
      PROVE  p + blocks[p - HDR].size <= q
  <2>1. End(blocks, p - HDR) <= q - HDR
    BY <1>1, <1>3, <1>4 DEF Tiled
  <2> QED BY <1>1, <1>2, <2>1 DEF End
<1>5. ASSUME NEW p \in DOMAIN held
      PROVE  p + blocks[p - HDR].size <= capacity
  <2>1. End(blocks, p - HDR) <= capacity
    BY <1>1, <1>3, <1>5 DEF Tiled
  <2> QED BY <1>1, <1>2, <2>1 DEF End
<1> QED BY <1>4, <1>5 DEF Promise!Disjoint, Promise!Inside

\* Every step of the heap is a step of the allocator or leaves it alone.
LEMMA StepAllocates ==
    Inv /\ Inv' /\ [Next]_vars
        => [Promise!Next]_<<capacity, [p \in DOMAIN held |-> blocks[p - HDR].size]>>
<1> SUFFICES ASSUME Inv, Inv', Next, ~UNCHANGED vars
             PROVE  Promise!Next
  BY DEF vars
<1> DEFINE extent == [p \in DOMAIN held |-> blocks[p - HDR].size]
<1>s. Sound'
  BY DEF Inv, Sound, TypeOK
<1>0. Promise!Disjoint' /\ Promise!Inside'
  BY <1>s, PayloadsApart, PTL
<1>k. LiveKept
  BY StepKeeps
<1>1. ASSUME NEW ram \in RamSizes, MemInit(ram) PROVE Promise!Next
  <2>1. capacity = 0 /\ held' = held /\ DOMAIN held = {}
    BY <1>1 DEF MemInit, Inv, Tiling, HeldIsUsed, UsedBlocks
  <2>2. capacity' \in Nat
    BY DEF Inv, TypeOK
  <2>3. extent' = extent
    BY <2>1
  <2> QED BY <2>1, <2>2, <2>3 DEF Promise!Next, Promise!Open
<1>2. ASSUME NEW size \in Sizes, Kmalloc(size) PROVE Promise!Next
  <2>1. PICK b \in FirstFit(blocks, AlignSize(size)) :
            /\ held' = With(held, b + HDR, size)
            /\ capacity' = capacity
    BY <1>2 DEF Kmalloc
  <2>2. b \in FreeBlocks(blocks) /\ b \in Nat
    BY HeapAssumption DEF FirstFit, Fits, FreeBlocks, Inv, TypeOK, IsList
  <2>3. b + HDR \notin DOMAIN held
    <3>1. \A c \in UsedBlocks(blocks) : c \in Nat /\ c # b
      BY <2>2 DEF UsedBlocks, FreeBlocks, Inv, TypeOK, IsList
    <3> QED BY <2>2, <3>1, HeapAssumption DEF Inv, HeldIsUsed
  <2>4. DOMAIN held' = DOMAIN held \cup {b + HDR}
    BY <2>1 DEF With
  <2>5. Promise!OnlyChanged({} \cup {b + HDR})
    BY <1>k, <2>4 DEF LiveKept, Promise!OnlyChanged
  <2>6. Promise!Grant(b + HDR)
    BY <1>0, <2>1, <2>3, <2>4, <2>5 DEF Promise!Grant, Promise!Exchange
  <2> QED BY <2>4, <2>6 DEF Promise!Next
<1>3. ASSUME NEW ptr \in DOMAIN held, Kfree(ptr) PROVE Promise!Next
  <2>1. held' = Without(held, ptr) /\ capacity' = capacity
    BY <1>3 DEF Kfree
  <2>2. DOMAIN held' = DOMAIN held \ {ptr}
    BY <2>1 DEF Without
  <2>3. Promise!OnlyChanged({ptr} \cup {})
    BY <1>k, <2>2 DEF LiveKept, Promise!OnlyChanged
  <2>4. Promise!Return(ptr)
    BY <1>0, <2>1, <2>2, <2>3 DEF Promise!Return, Promise!Exchange
  <2> QED BY <2>4 DEF Promise!Next
<1> QED BY <1>1, <1>2, <1>3 DEF Next

LEMMA InitAllocates == Init => Promise!Init
BY DEF Init, Promise!Init, NoneHeld

\* The heap refines the allocator: seen through its live payloads, it grants
\* extents that are free, apart and inside the arena, and takes them back.
THEOREM Refinement == Spec => IsAllocator
BY InitInv, NextInv, InitAllocates, StepAllocates, PTL DEF Spec, IsAllocator, Promise!Spec

-----------------------------------------------------------------------------
(* Room.                                                                   *)

\* No caller's request is so close to SIZE_MAX that rounding it up wraps.
NoWrap == \A n \in Sizes : n + ALIGN - 1 < WORD

LEMMA AlignCovers ==
    ASSUME NEW n \in Nat, n + ALIGN - 1 < WORD
    PROVE  n <= AlignSize(n)
<1> DEFINE up == n + ALIGN - 1
<1>1. up \in Nat /\ up % WORD = up /\ ALIGN \in Nat \ {0}
  BY HeapAssumption
<1>2. AlignSize(n) = IF n = 0 THEN ALIGN ELSE up - (up % ALIGN)
  BY <1>1 DEF AlignSize
<1>3. up % ALIGN \in 0 .. ALIGN - 1
  <2> HIDE DEF up
  <2> QED BY <1>1
<1> QED BY <1>1, <1>2, <1>3

LEMMA NextRoom ==
    ASSUME NoWrap, Inv, RoomForRequest, [Next]_vars
    PROVE  RoomForRequest'
<1>k. LiveKept \/ UNCHANGED vars
  BY StepKeeps
<1>1. ASSUME NEW ram \in RamSizes, MemInit(ram) PROVE RoomForRequest'
  <2>1. DOMAIN held = {} /\ held' = held
    BY <1>1 DEF MemInit, Inv, Tiling, HeldIsUsed, UsedBlocks
  <2> QED BY <2>1 DEF RoomForRequest
<1>2. ASSUME NEW size \in Sizes, Kmalloc(size), ~UNCHANGED vars PROVE RoomForRequest'
  <2>1. PICK b \in FirstFit(blocks, AlignSize(size)) :
            /\ blocks' = Carve(blocks, b, AlignSize(size))
            /\ held' = With(held, b + HDR, size)
    BY <1>2 DEF Kmalloc
  <2>2. IsGrant(blocks, b, AlignSize(size), blocks') /\ b \in Nat /\ HDR \in Nat
    BY <2>1, KmallocStep, HeapAssumption
  <2>3. size <= AlignSize(size) /\ size \in Nat /\ AlignSize(size) \in Nat
    BY AlignCovers, AlignNat, HeapAssumption DEF NoWrap
  <2>4. size <= blocks'[b].size
    BY <2>2, <2>3 DEF IsGrant
  <2>5. /\ DOMAIN held' = DOMAIN held \cup {b + HDR}
        /\ held'[b + HDR] = size
        /\ \A p \in DOMAIN held \ {b + HDR} : held'[p] = held[p]
    BY <2>1 DEF With
  <2>6. (b + HDR) - HDR = b
    BY <2>2
  <2> QED BY <1>2, <1>k, <2>4, <2>5, <2>6 DEF RoomForRequest, LiveKept
<1>3. ASSUME NEW ptr \in DOMAIN held, Kfree(ptr), ~UNCHANGED vars PROVE RoomForRequest'
  <2>1. held' = Without(held, ptr)
    BY <1>3 DEF Kfree
  <2> QED BY <1>3, <1>k, <2>1 DEF RoomForRequest, LiveKept, Without
<1>4. CASE UNCHANGED vars
  BY <1>4 DEF vars, RoomForRequest
<1> QED BY <1>1, <1>2, <1>3, <1>4 DEF Next

\* As long as no request wraps in mm_align_size, every caller of kmalloc gets
\* at least the bytes it asked for.
THEOREM Room == ASSUME NoWrap PROVE Spec => []RoomForRequest
<1>1. Init => RoomForRequest
  BY DEF Init, NoneHeld, RoomForRequest
<1>2. Inv /\ RoomForRequest /\ [Next]_vars => RoomForRequest'
  BY NextRoom
<1> QED BY <1>1, <1>2, InitInv, NextInv, PTL DEF Spec

-----------------------------------------------------------------------------
(* Undoing an allocation.                                                  *)

\* new is bs but for the used flag of b.
Marked(bs, b, u, new) ==
    /\ DOMAIN new = DOMAIN bs
    /\ \A c \in DOMAIN bs \ {b} : new[c] = bs[c]
    /\ new[b].size = bs[b].size /\ new[b].next = bs[b].next /\ new[b].used = u
    /\ IsList(new)

LEMMA MarkIs ==
  ASSUME NEW bs, IsList(bs), NEW b \in DOMAIN bs, NEW u \in BOOLEAN
  PROVE  Marked(bs, b, u, Mark(bs, b, u))
  BY MarkLemma DEF Marked

\* A header is its three fields.
IsHeader(r) == r = [size |-> r.size, used |-> r.used, next |-> r.next] /\ r.size \in Nat

LEMMA HeaderIs == ASSUME NEW bs, IsList(bs), NEW b \in DOMAIN bs PROVE IsHeader(bs[b])
  BY BlockType DEF IsHeader

\* kfree of the block that kmalloc has just handed out gives the list that kmalloc
\* found: the part that was split off is joined again.
LEMMA ReleaseUndoesCarve ==
  ASSUME NEW bs, NEW top \in Nat, IsList(bs), Tiled(bs, top), FreePairs(bs) = {},
         NEW b \in FreeBlocks(bs), NEW n \in Nat, n <= bs[b].size
  PROVE  Release(Carve(bs, b, n), b) = bs
  <1> DEFINE left == bs[b].size - n
             split == b + HDR + n
             got == Carve(bs, b, n)
             freed == Mark(got, b, FALSE)
  <1>1. b \in DOMAIN bs /\ b \in Nat /\ bs[b].used = FALSE /\ HDR \in Nat \ {0} /\ SPLIT \in Nat
    BY BlockType, HeapAssumption DEF FreeBlocks
  <1>2. Tiled(got, top) /\ IsGrant(bs, b, n, got) BY Zenon, <1>1, CarveLemma
  <1>3. IsList(got) /\ b \in DOMAIN got BY Zenon, <1>2 DEF IsGrant, UsedBlocks
  <1> HIDE DEF got
  <1>4. /\ DOMAIN freed = DOMAIN got
        /\ \A c \in DOMAIN got \ {b} : freed[c] = got[c]
        /\ freed[b].size = got[b].size /\ freed[b].next = got[b].next /\ freed[b].used = FALSE
        /\ IsList(freed)
    <2>1. FALSE \in BOOLEAN OBVIOUS
    <2>2. Marked(got, b, FALSE, freed) BY Zenon, <1>3, <2>1, MarkIs
    <2> HIDE DEF freed
    <2> QED BY Zenon, <2>2 DEF Marked
  <1>5. bs[b].next \notin FreeBlocks(bs) BY Zenon DEF FreePairs
  <1>6. \A p \in FreeBlocks(bs) : bs[p].next # b BY Zenon DEF FreePairs
  <1>7. bs[b].next # b /\ bs[b].next \in DOMAIN bs \cup {NULL} /\ b # NULL
    <2>1. End(bs, b) > b /\ End(bs, b) \in Nat BY Zenon, <1>1, BlockType
    <2>2. bs[b].next = NULL \/ (bs[b].next = End(bs, b) /\ End(bs, b) \in DOMAIN bs) BY Zenon, <1>1 DEF Tiled
    <2> HIDE DEF End
    <2> QED BY <1>1, <2>1, <2>2 DEF NULL
  <1>8. bs = [c \in DOMAIN bs |-> bs[c]] BY Zenon DEF IsList
  <1>9. bs[b] = [size |-> bs[b].size, used |-> FALSE, next |-> bs[b].next] /\ bs[b].size \in Nat
    <2>1. IsHeader(bs[b]) BY Zenon, <1>1, HeaderIs
    <2> QED BY Zenon, <1>1, <2>1 DEF IsHeader
  <1> HIDE DEF freed
  <1>10. CASE left >= MIN_SPLIT_SIZE
    <2> DEFINE h == [size |-> n, used |-> TRUE, next |-> split]
               r == [size |-> left - HDR, used |-> FALSE, next |-> bs[b].next]
    <2>1. left \in Nat /\ left >= HDR /\ split \in Nat /\ split # b /\ split > b /\ split # NULL
      BY <1>1, <1>9, <1>10 DEF MIN_SPLIT_SIZE, NULL
    <2>2. split \notin DOMAIN bs
      <3>1. split < End(bs, b) BY <1>1, <1>9, <1>10 DEF End, MIN_SPLIT_SIZE
      <3>2. End(bs, b) \in Nat BY Zenon, <1>1, BlockType
      <3>3. split \in DOMAIN bs => End(bs, b) <= split BY Zenon, <1>1, <2>1 DEF Tiled
      <3> HIDE DEF split
      <3> QED BY <2>1, <3>1, <3>2, <3>3
    <2>3. got = [c \in DOMAIN bs \cup {split} |-> CASE c = split -> r [] c = b -> h [] OTHER -> bs[c]]
      BY Zenon, <1>10 DEF got, Carve
    <2> HIDE DEF h, r, split, left
    <2>4. /\ DOMAIN got = DOMAIN bs \cup {split} /\ got[split] = r /\ got[b] = h
          /\ \A c \in DOMAIN bs \ {b} : got[c] = bs[c]
      BY <1>1, <2>1, <2>2, <2>3
    <2>5. h.size = n /\ h.next = split /\ h.used = TRUE /\ r.size = left - HDR /\ r.used = FALSE /\ r.next = bs[b].next
      BY DEF h, r
    <2>6. Previous(got, b) \cap FreeBlocks(got) = {}
      <3> SUFFICES ASSUME NEW p \in DOMAIN got, got[p].next = b, ~got[p].used PROVE FALSE
        BY Zenon DEF Previous, FreeBlocks
      <3>1. p # b BY Zenon, <2>4, <2>5
      <3>2. p # split BY Zenon, <1>7, <2>4, <2>5
      <3>3. p \in FreeBlocks(bs) /\ bs[p].next = b BY Zenon, <2>4, <3>1, <3>2 DEF FreeBlocks
      <3> QED BY Zenon, <1>6, <3>3
    <2>7. freed[b].next = split /\ freed[b].size = n /\ freed[split] = r BY Zenon, <1>4, <2>1, <2>4, <2>5
    <2>8. Release(got, b) = Absorb(freed, b)
      <3>1. NextIsFree(freed, b) BY Zenon, <2>1, <2>5, <2>7 DEF NextIsFree
      <3> QED BY Zenon, <2>6, <3>1 DEF Release, AbsorbFreeNext, freed
    <2>9. Absorb(freed, b) = [c \in DOMAIN freed \ {split} |->
              IF c = b THEN [size |-> n + (left - HDR) + HDR, used |-> FALSE, next |-> bs[b].next] ELSE freed[c]]
      BY Zenon, <1>4, <2>5, <2>7 DEF Absorb
    <2>10. DOMAIN freed \ {split} = DOMAIN bs BY Zenon, <1>4, <2>2, <2>4
    <2>11. n + (left - HDR) + HDR = bs[b].size BY <1>1, <1>9 DEF left
    <2>12. Absorb(freed, b) = [c \in DOMAIN bs |-> IF c = b THEN bs[b] ELSE freed[c]]
      BY Zenon, <1>9, <2>9, <2>10, <2>11
    <2>13. \A c \in DOMAIN bs \ {b} : freed[c] = bs[c] BY Zenon, <1>4, <2>4
    <2>14. Absorb(freed, b) = [c \in DOMAIN bs |-> bs[c]] BY Zenon, <2>12, <2>13
    <2> QED BY Zenon, <1>8, <2>8, <2>14 DEF got
  <1>11. CASE ~(left >= MIN_SPLIT_SIZE)
    <2>1. got = Mark(bs, b, TRUE) BY Zenon, <1>11 DEF got, Carve
    <2>2. /\ DOMAIN got = DOMAIN bs /\ \A c \in DOMAIN bs \ {b} : got[c] = bs[c]
          /\ got[b].size = bs[b].size /\ got[b].next = bs[b].next /\ got[b].used = TRUE
      <3>1. TRUE \in BOOLEAN OBVIOUS
      <3>2. Marked(bs, b, TRUE, got) BY Zenon, <1>1, <2>1, <3>1, MarkIs
      <3> QED BY Zenon, <3>2 DEF Marked
    <2>3. Previous(got, b) \cap FreeBlocks(got) = {}
      <3> SUFFICES ASSUME NEW p \in DOMAIN got, got[p].next = b, ~got[p].used PROVE FALSE
        BY Zenon DEF Previous, FreeBlocks
      <3>1. p # b BY Zenon, <2>2
      <3>2. p \in FreeBlocks(bs) /\ bs[p].next = b BY Zenon, <2>2, <3>1 DEF FreeBlocks
      <3> QED BY Zenon, <1>6, <3>2
    <2>4. ~NextIsFree(freed, b)
      <3> SUFFICES ASSUME bs[b].next # NULL, ~freed[bs[b].next].used PROVE FALSE BY Zenon, <1>4, <2>2 DEF NextIsFree
      <3>1. freed[bs[b].next] = bs[bs[b].next] BY Zenon, <1>4, <1>7, <2>2
      <3> QED BY Zenon, <1>5, <1>7, <3>1 DEF FreeBlocks
    <2>5. Release(got, b) = freed BY Zenon, <2>3, <2>4 DEF Release, AbsorbFreeNext, freed
    <2>6. freed[b] = bs[b]
      <3>1. b \in DOMAIN freed BY Zenon, <1>3, <1>4
      <3>2. IsHeader(freed[b]) BY Zenon, <1>4, <3>1, HeaderIs
      <3> QED BY Zenon, <1>4, <1>9, <2>2, <3>2 DEF IsHeader
    <2>7. freed = [c \in DOMAIN freed |-> freed[c]] BY Zenon, <1>4 DEF IsList
    <2>8. DOMAIN freed = DOMAIN bs /\ \A c \in DOMAIN bs : freed[c] = bs[c] BY Zenon, <1>4, <2>2, <2>6
    <2>9. freed = [c \in DOMAIN bs |-> bs[c]] BY Zenon, <2>7, <2>8
    <2> QED BY Zenon, <1>8, <2>5, <2>9 DEF got
  <1> QED BY Zenon, <1>10, <1>11

-----------------------------------------------------------------------------
(* Well-foundedness of <, which stands in for induction.                   *)

\* A set of numbers has a least one.
LEMMA Least == ASSUME NEW S, S \subseteq Nat, S # {} PROVE \E x \in S : \A y \in S : x <= y
  <1> DEFINE R == OpToRel(<, Nat)
  <1>1. IsWellFoundedOn(R, Nat) BY Zenon, NatLessThanWellFounded
  <1>2. \A m, n \in Nat : m < n => <<m, n>> \in R BY DEF OpToRel
  <1> HIDE DEF R
  <1>3. PICK x \in S : \A y \in S : ~(<<y, x>> \in R) BY Zenon, <1>1, WFMin
  <1>4. \A y \in S : ~(y < x) BY Zenon, <1>2, <1>3
  <1>5. \A y \in S : x <= y BY <1>4
  <1> QED BY Zenon, <1>5

-----------------------------------------------------------------------------
(* Lists of siblings.  q lists the nodes of K: it starts with f, and nx    *)
(* leads from each node to the next.                                       *)

At(q, i) == IF i \in 1 .. Len(q) THEN q[i] ELSE NULL

Lists(nx, q, f, K) ==
    /\ q \in Seq(K)
    /\ \A i, j \in 1 .. Len(q) : q[i] = q[j] => i = j
    /\ \A k \in K : \E i \in 1 .. Len(q) : q[i] = k
    /\ f = At(q, 1)
    /\ \A i \in 1 .. Len(q) : nx[q[i]] = At(q, i + 1)

LEMMA NoSiblings == ASSUME NEW nx PROVE Lists(nx, <<>>, NULL, {})
  <1>1. Len(<<>>) = 0 /\ <<>> \in Seq({}) OBVIOUS
  <1>2. \A i : i \notin 1 .. Len(<<>>) BY <1>1
  <1> QED BY Zenon, <1>1, <1>2 DEF Lists, At

\* A list that starts with nothing has nothing in it.
LEMMA EmptyList == ASSUME NEW nx, NEW q, NEW K, NULL \notin K, Lists(nx, q, NULL, K) PROVE K = {}
  <1> SUFFICES ASSUME NEW k \in K PROVE FALSE OBVIOUS
  <1>1. q \in Seq(K) /\ At(q, 1) = NULL BY Zenon DEF Lists
  <1>2. PICK i \in 1 .. Len(q) : q[i] = k BY Zenon DEF Lists
  <1>3. Len(q) \in Nat /\ 1 \in 1 .. Len(q) BY <1>1, <1>2
  <1>4. q[1] \in K BY <1>1, <1>3
  <1> QED BY Zenon, <1>1, <1>3, <1>4 DEF At

LEMMA SameLinks ==
  ASSUME NEW nx, NEW ny, NEW q, NEW f, NEW K, Lists(nx, q, f, K), \A k \in K : ny[k] = nx[k]
  PROVE  Lists(ny, q, f, K)
  <1>1. q \in Seq(K) BY Zenon DEF Lists
  <1>2. \A i \in 1 .. Len(q) : q[i] \in K BY <1>1
  <1>3. \A i \in 1 .. Len(q) : ny[q[i]] = At(q, i + 1) BY Zenon, <1>2 DEF Lists
  <1> QED BY Zenon, <1>3 DEF Lists

\* hfs_add_child puts the new child in front.
LEMMA PushChild ==
  ASSUME NEW nx, NEW q, NEW f, NEW K, Lists(nx, q, f, K), NEW c, c \notin K, nx[c] = f
  PROVE  \E r : Lists(nx, r, c, K \cup {c})
  <1> DEFINE n == Len(q)
             r == [i \in 1 .. n + 1 |-> IF i = 1 THEN c ELSE q[i - 1]]
             L == K \cup {c}
  <1>1. q \in Seq(K) /\ n \in Nat BY DEF Lists
  <1>2. \A i \in 1 .. n : q[i] \in K BY <1>1
  <1>3. \A i \in 1 .. n + 1 : i # 1 => i - 1 \in 1 .. n BY <1>1
  <1>4. \A i \in 1 .. n + 1 : r[i] \in L BY Zenon, <1>2, <1>3
  <1>5. r \in Seq(L) /\ Len(r) = n + 1
    <2>1. r = [i \in 1 .. n + 1 |-> r[i]] /\ n + 1 \in Nat BY <1>1
    <2>2. r \in [1 .. n + 1 -> L] BY Zenon, <1>4, <2>1
    <2>3. DOMAIN r = 1 .. n + 1 BY Zenon
    <2> HIDE DEF r
    <2>4. r \in Seq(L) BY <2>1, <2>2
    <2> QED BY <2>1, <2>3, <2>4
  <1>6. \A i, j \in 1 .. Len(r) : r[i] = r[j] => i = j
    <2> SUFFICES ASSUME NEW i \in 1 .. n + 1, NEW j \in 1 .. n + 1, r[i] = r[j] PROVE i = j BY Zenon, <1>5
    <2>1. CASE i = 1 BY Zenon, <1>2, <1>3, <2>1
    <2>2. CASE j = 1 BY Zenon, <1>2, <1>3, <2>2
    <2>3. CASE i # 1 /\ j # 1
      <3>1. q[i - 1] = q[j - 1] BY Zenon, <2>3
      <3>2. i - 1 = j - 1 BY Zenon, <1>3, <2>3, <3>1 DEF Lists
      <3>3. i \in Int /\ j \in Int OBVIOUS
      <3> QED BY <3>2, <3>3
    <2> QED BY Zenon, <2>1, <2>2, <2>3
  <1>7. \A k \in L : \E i \in 1 .. Len(r) : r[i] = k
    <2>1. ASSUME NEW k \in K PROVE \E i \in 1 .. n + 1 : r[i] = k
      <3>1. PICK i \in 1 .. n : q[i] = k BY Zenon DEF Lists
      <3>2. PICK j \in 1 .. n + 1 : j = i + 1 BY <1>1
      <3>3. j # 1 /\ j - 1 = i BY <1>1, <3>2
      <3>4. r[j] = q[j - 1] BY Zenon, <3>3
      <3> QED BY Zenon, <3>1, <3>3, <3>4
    <2>2. 1 \in 1 .. n + 1 BY <1>1
    <2>3. r[1] = c BY Zenon, <2>2
    <2> QED BY Zenon, <1>5, <2>1, <2>2, <2>3
  <1>8. c = At(r, 1)
    <2>1. 1 \in 1 .. n + 1 BY <1>1
    <2> QED BY Zenon, <1>5, <2>1 DEF At
  <1>9. \A i \in 1 .. Len(r) : nx[r[i]] = At(r, i + 1)
    <2> SUFFICES ASSUME NEW i \in 1 .. n + 1 PROVE nx[r[i]] = At(r, i + 1) BY Zenon, <1>5
    <2>1. i + 1 \in 1 .. n + 1 <=> i \in 1 .. n BY <1>1
    <2>2. i \in 1 .. n => r[i + 1] = q[i]
      <3> SUFFICES ASSUME i \in 1 .. n PROVE r[i + 1] = q[i] OBVIOUS
      <3>1. PICK j \in 1 .. n + 1 : j = i + 1 BY Zenon, <2>1
      <3>2. j # 1 /\ j - 1 = i BY <1>1, <3>1
      <3>3. r[j] = q[j - 1] BY Zenon, <3>2
      <3> QED BY Zenon, <3>1, <3>2, <3>3
    <2>3. At(r, i + 1) = At(q, i) BY Zenon, <1>5, <2>1, <2>2 DEF At
    <2>4. CASE i = 1 BY Zenon, <2>3, <2>4 DEF Lists
    <2>5. CASE i # 1
      <3>1. PICK j \in 1 .. n : j = i - 1 BY Zenon, <1>3, <2>5
      <3>2. j + 1 = i BY <3>1
      <3>3. nx[q[j]] = At(q, j + 1) BY Zenon DEF Lists
      <3> QED BY Zenon, <2>3, <2>5, <3>1, <3>2, <3>3
    <2> QED BY Zenon, <2>4, <2>5
  <1> HIDE DEF r
  <1> QED BY Zenon, <1>5, <1>6, <1>7, <1>8, <1>9 DEF Lists

\* Whatever led to c, the first link f included, leads past it.
Skips(nx, ny, f, g, K, c) ==
    /\ \A k \in K \ {c} : ny[k] = IF nx[k] = c THEN nx[c] ELSE nx[k]
    /\ g = IF f = c THEN nx[c] ELSE f

\* hfs_remove takes one child out.
LEMMA DropChild ==
  ASSUME NEW nx, NEW q, NEW f, NEW K, NULL \notin K, Lists(nx, q, f, K), NEW c \in K,
         NEW ny, NEW g, Skips(nx, ny, f, g, K, c)
  PROVE  \E r : Lists(ny, r, g, K \ {c})
  <1>1. PICK m \in 1 .. Len(q) : q[m] = c BY Zenon DEF Lists
  <1> DEFINE n == Len(q)
             l == n - 1
             At2(i) == IF i < m THEN i ELSE i + 1
             r == [i \in 1 .. l |-> q[At2(i)]]
             L == K \ {c}
  <1>2. q \in Seq(K) /\ n \in Nat /\ l \in Nat /\ m \in 1 .. n /\ m \in Nat
    <2>1. q \in Seq(K) BY Zenon DEF Lists
    <2>2. n \in Nat BY <2>1
    <2> QED BY <1>1, <2>1, <2>2
  <1>3. \A i \in 1 .. n : q[i] \in K BY <1>2
  <1>4. \A i, j \in 1 .. n : q[i] = q[j] => i = j BY Zenon DEF Lists
  <1> HIDE DEF n
  <1>5. \A i \in 1 .. l : At2(i) \in 1 .. n /\ At2(i) # m BY <1>2
  <1>6. \A i, j \in 1 .. l : At2(i) = At2(j) => i = j BY <1>2
  <1>7. \A j \in 1 .. n : j # m => \E i \in 1 .. l : At2(i) = j
    <2> SUFFICES ASSUME NEW j \in 1 .. n, j # m PROVE \E i \in 1 .. l : At2(i) = j OBVIOUS
    <2>1. CASE j < m
      <3>1. j \in 1 .. l /\ At2(j) = j BY <1>2, <2>1
      <3> QED BY Zenon, <3>1
    <2>2. CASE ~(j < m)
      <3>1. j - 1 \in 1 .. l /\ At2(j - 1) = j BY <1>2, <2>2
      <3> QED BY Zenon, <3>1
    <2> QED BY Zenon, <2>1, <2>2
  <1> HIDE DEF At2
  <1>8. \A i \in 1 .. l : r[i] \in L BY Zenon, <1>1, <1>2, <1>3, <1>4, <1>5
  <1>9. r \in Seq(L) /\ Len(r) = l
    <2>1. r = [i \in 1 .. l |-> r[i]] /\ DOMAIN r = 1 .. l BY Zenon
    <2>2. r \in [1 .. l -> L] BY Zenon, <1>8, <2>1
    <2> HIDE DEF r, l
    <2>3. r \in Seq(L) BY <1>2, <2>2
    <2> QED BY <1>2, <2>1, <2>3
  <1>10. \A i, j \in 1 .. Len(r) : r[i] = r[j] => i = j
    <2> SUFFICES ASSUME NEW i \in 1 .. l, NEW j \in 1 .. l, r[i] = r[j] PROVE i = j BY Zenon, <1>9
    <2>1. q[At2(i)] = q[At2(j)] BY Zenon
    <2> QED BY Zenon, <1>4, <1>5, <1>6, <2>1
  <1>11. \A k \in L : \E i \in 1 .. Len(r) : r[i] = k
    <2> SUFFICES ASSUME NEW k \in L PROVE \E i \in 1 .. l : r[i] = k BY Zenon, <1>9
    <2>1. PICK j \in 1 .. n : q[j] = k BY Zenon DEF Lists, n
    <2>2. j # m BY Zenon, <1>1, <2>1
    <2>3. PICK i \in 1 .. l : At2(i) = j BY Zenon, <1>7, <2>2
    <2> QED BY Zenon, <2>1, <2>3
  <1>12. \A i \in Nat \ {0} : At(r, i) = IF i < m THEN At(q, i) ELSE At(q, i + 1)
    <2> SUFFICES ASSUME NEW i \in Nat \ {0} PROVE At(r, i) = IF i < m THEN At(q, i) ELSE At(q, i + 1) OBVIOUS
    <2>1. CASE i < m
      <3>1. i \in 1 .. l /\ i \in 1 .. n /\ At2(i) = i BY <1>2, <2>1 DEF At2
      <3> QED BY Zenon, <1>9, <2>1, <3>1 DEF At, n
    <2>2. CASE ~(i < m)
      <3>1. (i \in 1 .. l <=> i + 1 \in 1 .. n) /\ At2(i) = i + 1 BY <1>2, <2>2 DEF At2
      <3> QED BY Zenon, <1>9, <2>2, <3>1 DEF At, n
    <2> QED BY Zenon, <2>1, <2>2
  <1>13. \A i : At(q, i) = c <=> i = m
    <2> SUFFICES ASSUME NEW i, At(q, i) = c PROVE i = m BY Zenon, <1>1 DEF At
    <2>1. i \in 1 .. n BY Zenon DEF At, n
    <2> QED BY Zenon, <1>1, <1>2, <1>4, <2>1 DEF At, n
  <1>14. f = At(q, 1) /\ \A i \in 1 .. n : nx[q[i]] = At(q, i + 1) BY Zenon DEF Lists, n
  <1>15. nx[c] = At(q, m + 1) BY Zenon, <1>1, <1>2, <1>14
  <1>16. g = At(r, 1)
    <2>1. 1 \in Nat \ {0} /\ (1 < m <=> 1 # m) /\ 1 \in Nat BY <1>2
    <2>2. At(r, 1) = IF 1 < m THEN At(q, 1) ELSE At(q, 1 + 1) BY Zenon, <1>12, <2>1
    <2>3. CASE 1 = m BY Zenon, <1>13, <1>14, <1>15, <2>1, <2>2, <2>3 DEF Skips
    <2>4. CASE 1 # m BY Zenon, <1>13, <1>14, <2>1, <2>2, <2>4 DEF Skips
    <2> QED BY Zenon, <2>3, <2>4
  <1>17. \A i \in 1 .. Len(r) : ny[r[i]] = At(r, i + 1)
    <2> SUFFICES ASSUME NEW i \in 1 .. l PROVE ny[r[i]] = At(r, i + 1) BY Zenon, <1>9
    <2> DEFINE j == At2(i)
    <2>1. j \in 1 .. n /\ r[i] = q[j] /\ r[i] \in L BY Zenon, <1>5, <1>8
    <2>2. ny[r[i]] = IF At(q, j + 1) = c THEN At(q, m + 1) ELSE At(q, j + 1) BY Zenon, <1>14, <1>15, <2>1 DEF Skips
    <2>3. i + 1 \in Nat \ {0} /\ i \in Nat BY <1>2
    <2>4. At(r, i + 1) = IF i + 1 < m THEN At(q, i + 1) ELSE At(q, (i + 1) + 1) BY Zenon, <1>12, <2>3
    <2>5. j = IF i < m THEN i ELSE i + 1 BY Zenon DEF At2
    <2> HIDE DEF j
    <2>6. CASE j + 1 = m
      <3>1. ~(i + 1 < m) /\ (i + 1) + 1 = m + 1 BY <1>2, <2>3, <2>5, <2>6
      <3> QED BY Zenon, <1>13, <2>2, <2>4, <2>6, <3>1
    <2>7. CASE j + 1 # m
      <3>1. j + 1 = IF i + 1 < m THEN i + 1 ELSE (i + 1) + 1 BY <1>2, <2>3, <2>5, <2>7
      <3>2. At(q, j + 1) # c BY Zenon, <1>13, <2>7
      <3>3. ny[r[i]] = At(q, j + 1) BY Zenon, <2>2, <3>2
      <3> QED BY Zenon, <2>4, <3>1, <3>3
    <2> QED BY Zenon, <2>6, <2>7
  <1> HIDE DEF r
  <1> QED BY Zenon, <1>9, <1>10, <1>11, <1>16, <1>17 DEF Lists

-----------------------------------------------------------------------------
(* The walk along the siblings.                                            *)

\* Induction over the naturals, for a set.
LEMMA BySuccessor ==
  ASSUME NEW S, 0 \in S, \A n \in Nat : n \in S => n + 1 \in S
  PROVE  \A n \in Nat : n \in S
  <1> DEFINE T == Nat \ S
  <1> SUFFICES ASSUME T # {} PROVE FALSE BY Zenon
  <1>1. PICK n \in T : \A m \in T : n <= m
    <2>1. T \subseteq Nat BY Zenon
    <2> HIDE DEF T
    <2> QED BY Zenon, <2>1, Least
  <1>2. n # 0 /\ n \in Nat BY Zenon
  <1>3. n - 1 \in Nat /\ ~(n <= n - 1) /\ (n - 1) + 1 = n BY <1>2
  <1>4. n - 1 \in S BY Zenon, <1>1, <1>3
  <1>5. n \in S BY Zenon, <1>3, <1>4
  <1> QED BY Zenon, <1>5

\* q from its i-th element on.
From(q, i) == [j \in 1 .. Len(q) - i + 1 |-> q[i + j - 1]]

LEMMA FromStep ==
  ASSUME NEW D, NEW q \in Seq(D), NEW i \in 1 .. Len(q)
  PROVE  From(q, i) = <<q[i]>> \o From(q, i + 1)
  <1> DEFINE n == Len(q)
             t == From(q, i + 1)
             u == <<q[i]>> \o t
  <1>1. n \in Nat /\ i \in 1 .. n /\ i \in Nat OBVIOUS
  <1>2. \A k \in 1 .. n : q[k] \in D OBVIOUS
  <1>3. t = [j \in 1 .. n - i |-> q[(i + 1) + j - 1]]
    <2>1. n - (i + 1) + 1 = n - i BY <1>1
    <2> QED BY Zenon, <2>1 DEF From
  <1>4. \A j \in 1 .. n - i : (i + 1) + j - 1 \in 1 .. n BY <1>1
  <1>5. t \in [1 .. n - i -> D] BY Zenon, <1>2, <1>3, <1>4
  <1>6. n - i \in Nat BY <1>1
  <1> HIDE DEF n, t
  <1>7. t \in Seq(D) /\ Len(t) = n - i BY <1>5, <1>6
  <1>8. q[i] \in D BY Zenon, <1>1, <1>2
  <1>9. <<q[i]>> \in Seq(D) /\ Len(<<q[i]>>) = 1 BY <1>8
  <1>10. u \in Seq(D) /\ Len(u) = n - i + 1 BY <1>6, <1>7, <1>9
  <1>11. \A j \in 1 .. n - i + 1 : u[j] = q[i + j - 1]
    <2> SUFFICES ASSUME NEW j \in 1 .. n - i + 1 PROVE u[j] = q[i + j - 1] BY Zenon
    <2>1. CASE j = 1
      <3>1. u[1] = q[i] BY <1>7, <1>9
      <3>2. i + j - 1 = i BY <1>1, <2>1
      <3> QED BY Zenon, <2>1, <3>1, <3>2
    <2>2. CASE j # 1
      <3>1. j - 1 \in 1 .. n - i /\ (i + 1) + (j - 1) - 1 = i + j - 1 BY <1>1, <1>6, <2>2
      <3>2. u[j] = t[j - 1] BY <1>6, <1>7, <1>9, <3>1
      <3>3. PICK k \in 1 .. n - i : k = j - 1 BY Zenon, <3>1
      <3>4. t[k] = q[(i + 1) + k - 1] BY Zenon, <1>3
      <3> QED BY Zenon, <3>1, <3>2, <3>3, <3>4
    <2> QED BY Zenon, <2>1, <2>2
  <1>12. DOMAIN u = 1 .. n - i + 1 /\ u = [j \in DOMAIN u |-> u[j]]
    <2> HIDE DEF u
    <2> QED BY <1>10
  <1> HIDE DEF u
  <1>13. u = [j \in 1 .. n - i + 1 |-> q[i + j - 1]] BY Zenon, <1>11, <1>12
  <1> QED BY Zenon, <1>13 DEF From, u, t, n

LEMMA FromEnds ==
  ASSUME NEW D, NEW q \in Seq(D)
  PROVE  From(q, Len(q) + 1) = <<>> /\ From(q, 1) = q
  <1> DEFINE n == Len(q)
  <1>1. n \in Nat OBVIOUS
  <1>2. q = [j \in 1 .. n |-> q[j]] OBVIOUS
  <1> HIDE DEF n
  <1>3. 1 .. n - (n + 1) + 1 = {} /\ n - 1 + 1 = n /\ \A j \in 1 .. n : 1 + j - 1 = j BY <1>1
  <1>4. From(q, n + 1) = <<>>
    <2> DEFINE e == [j \in 1 .. n - (n + 1) + 1 |-> q[(n + 1) + j - 1]]
    <2>1. DOMAIN e = {} BY Zenon, <1>3
    <2>2. e = [j \in DOMAIN e |-> e[j]] BY Zenon
    <2>3. e = From(q, n + 1) BY Zenon DEF From, n
    <2> HIDE DEF e
    <2>4. e = <<>> BY <2>1, <2>2
    <2> QED BY Zenon, <2>3, <2>4
  <1>5. From(q, 1) = q BY Zenon, <1>2, <1>3 DEF From, n
  <1> QED BY Zenon, <1>4, <1>5 DEF n

\* g walks the nodes of D along nx.
Walk(nx, D, g) == [c \in D \cup {NULL} |-> IF c = NULL THEN <<>> ELSE <<c>> \o g[nx[c]]]

\* Any such walk goes through a list from its first node to its last.
LEMMA WalkLists ==
  ASSUME NEW nx, NEW D, NULL \notin D, NEW g, g = Walk(nx, D, g),
         NEW q, NEW f, NEW K, K \subseteq D, Lists(nx, q, f, K)
  PROVE  g[f] = q
  <1> DEFINE n == Len(q)
             S == {d \in Nat : d <= n => g[At(q, n + 1 - d)] = From(q, n + 1 - d)}
  <1>1. q \in Seq(K) BY Zenon DEF Lists
  <1>2. n \in Nat /\ \A i \in 1 .. n : q[i] \in K BY <1>1
  <1>3. g[NULL] = <<>> BY Zenon DEF Walk
  <1>4. \A c \in D : g[c] = <<c>> \o g[nx[c]] BY Zenon DEF Walk
  <1>5. \A i \in 1 .. n : From(q, i) = <<q[i]>> \o From(q, i + 1) BY Zenon, <1>1, FromStep
  <1>6. From(q, n + 1) = <<>> /\ From(q, 1) = q BY Zenon, <1>1, FromEnds
  <1>7. \A i \in 1 .. n : nx[q[i]] = At(q, i + 1) /\ At(q, i) = q[i] BY Zenon DEF Lists, At
  <1>8. At(q, n + 1) = NULL
    <2>1. n + 1 \notin 1 .. n BY <1>2
    <2> QED BY Zenon, <2>1 DEF At
  <1> HIDE DEF n
  <1>9. 0 \in S
    <2>1. n + 1 - 0 = n + 1 BY <1>2
    <2> QED BY Zenon, <1>3, <1>6, <1>8, <2>1
  <1>10. \A d \in Nat : d \in S => d + 1 \in S
    <2> SUFFICES ASSUME NEW d \in Nat, d \in S, d + 1 <= n
                 PROVE  g[At(q, n + 1 - (d + 1))] = From(q, n + 1 - (d + 1))
      <3>1. \A d \in Nat : d + 1 \in Nat OBVIOUS
      <3> QED BY Zenon, <3>1
    <2>1. d <= n /\ n - d \in 1 .. n /\ n + 1 - (d + 1) = n - d /\ n + 1 - d = (n - d) + 1 BY <1>2
    <2>2. PICK i \in 1 .. n : i = n - d BY Zenon, <2>1
    <2>3. g[At(q, i + 1)] = From(q, i + 1) BY Zenon, <2>1, <2>2
    <2>4. q[i] \in D BY Zenon, <1>2
    <2>5. g[q[i]] = <<q[i]>> \o g[At(q, i + 1)] BY Zenon, <1>4, <1>7, <2>4
    <2>6. g[At(q, i)] = From(q, i) BY Zenon, <1>5, <1>7, <2>3, <2>5
    <2> QED BY Zenon, <2>1, <2>2, <2>6
  <1>11. \A d \in Nat : d \in S
    <2> HIDE DEF S
    <2> QED BY Zenon, <1>9, <1>10, BySuccessor
  <1>12. n \in S BY Zenon, <1>2, <1>11
  <1>13. n <= n /\ n + 1 - n = 1 BY <1>2
  <1> QED BY Zenon, <1>6, <1>12, <1>13 DEF Lists

\* Every node is alone or in the list of its parent.
InLists(nx, D, par, Q, F, KK) ==
    /\ \A c \in D : par[c] = NULL => nx[c] = NULL
    /\ \A c \in D : par[c] # NULL => c \in KK[par[c]] /\ Lists(nx, Q[par[c]], F[par[c]], KK[par[c]])
    /\ \A c \in D : \A k : par[c] # NULL /\ k \in KK[par[c]] => k \in D /\ par[k] = par[c]

Walks(nx, D) == \E g : g = Walk(nx, D, g)

\* Then there is a walk.
LEMMA WalkExists ==
  ASSUME NEW nx, NEW D, NULL \notin D, NEW par, NEW Q, NEW F, NEW KK, InLists(nx, D, par, Q, F, KK)
  PROVE  Walks(nx, D)
  <1> DEFINE Pos(q, c) == CHOOSE i \in 1 .. Len(q) : q[i] = c
             rest(c) == IF c = NULL THEN <<>> ELSE IF par[c] = NULL THEN <<c>> ELSE From(Q[par[c]], Pos(Q[par[c]], c))
             g == [c \in D \cup {NULL} |-> rest(c)]
  <1>1. g[NULL] = <<>> BY Zenon
  <1>2. \A c \in D : g[c] = IF par[c] = NULL THEN <<c>> ELSE From(Q[par[c]], Pos(Q[par[c]], c)) BY Zenon
  <1> HIDE DEF rest
  <1>3. DOMAIN g = D \cup {NULL} /\ g = [c \in D \cup {NULL} |-> g[c]] BY Zenon
  <1> HIDE DEF g
  <1>4. ASSUME NEW c \in D PROVE g[c] = <<c>> \o g[nx[c]]
    <2>1. CASE par[c] = NULL
      <3>1. g[nx[c]] = <<>> BY Zenon, <1>1, <2>1 DEF InLists
      <3>2. <<c>> \o <<>> = <<c>> OBVIOUS
      <3> QED BY Zenon, <1>2, <2>1, <3>1, <3>2
    <2>2. CASE par[c] # NULL
      <3> DEFINE p == par[c]
                 q == Q[p]
                 K == KK[p]
      <3>1. Lists(nx, q, F[p], K) /\ c \in K BY Zenon, <2>2 DEF InLists
      <3>2. \A k \in K : k \in D /\ par[k] = p BY Zenon, <2>2 DEF InLists
      <3>3. q \in Seq(K) BY Zenon, <3>1 DEF Lists
      <3>4. \A k \in K : g[k] = From(q, Pos(q, k)) /\ Pos(q, k) \in 1 .. Len(q) /\ q[Pos(q, k)] = k
        <4> SUFFICES ASSUME NEW k \in K
                     PROVE  g[k] = From(q, Pos(q, k)) /\ Pos(q, k) \in 1 .. Len(q) /\ q[Pos(q, k)] = k BY Zenon
        <4>1. k \in D /\ par[k] = p BY Zenon, <3>2
        <4>2. g[k] = From(q, Pos(q, k))
          <5> HIDE DEF Pos
          <5>1. par[k] # NULL BY Zenon, <2>2, <4>1
          <5>2. g[k] = From(Q[par[k]], Pos(Q[par[k]], k)) BY Zenon, <1>2, <4>1, <5>1
          <5> QED BY Zenon, <4>1, <5>2
        <4>3. \E i \in 1 .. Len(q) : q[i] = k BY Zenon, <3>1 DEF Lists
        <4>4. Pos(q, k) \in 1 .. Len(q) /\ q[Pos(q, k)] = k
          <5> HIDE DEF q
          <5> QED BY Zenon, <4>3
        <4> QED BY Zenon, <4>2, <4>4
      <3> HIDE DEF Pos
      <3>a. \A a, b \in 1 .. Len(q) : q[a] = q[b] => a = b BY Zenon, <3>1 DEF Lists
      <3>5. PICK i \in 1 .. Len(q) : i = Pos(q, c) BY Zenon, <3>1, <3>4
      <3>6. q[i] = c /\ g[c] = From(q, i) BY Zenon, <3>1, <3>4, <3>5
      <3>7. From(q, i) = <<q[i]>> \o From(q, i + 1) BY Zenon, <3>3, FromStep
      <3>8. nx[c] = At(q, i + 1) BY Zenon, <3>1, <3>6 DEF Lists
      <3>9. Len(q) \in Nat /\ i \in Nat /\ \A j \in 1 .. Len(q) : q[j] \in K
        <4> HIDE DEF q, K
        <4> QED BY <3>3
      <3>10. g[nx[c]] = From(q, i + 1)
        <4>1. CASE i + 1 \in 1 .. Len(q)
          <5>1. PICK j \in 1 .. Len(q) : j = i + 1 BY Zenon, <4>1
          <5>2. nx[c] = q[j] /\ q[j] \in K BY Zenon, <3>8, <3>9, <5>1 DEF At
          <5>a. PICK a \in 1 .. Len(q) : a = Pos(q, q[j]) BY Zenon, <3>4, <5>2
          <5>b. q[a] = q[j] BY Zenon, <3>4, <5>2, <5>a
          <5>3. Pos(q, q[j]) = j BY Zenon, <3>a, <5>a, <5>b
          <5> QED BY Zenon, <3>4, <5>1, <5>2, <5>3
        <4>2. CASE i + 1 \notin 1 .. Len(q)
          <5>1. nx[c] = NULL BY Zenon, <3>8, <4>2 DEF At
          <5>2. i + 1 = Len(q) + 1
            <6> HIDE DEF q
            <6> QED BY <3>9, <4>2
          <5>0. From(q, Len(q) + 1) = <<>> /\ From(q, 1) = q BY Zenon, <3>3, FromEnds
          <5>3. From(q, i + 1) = <<>> BY Zenon, <5>0, <5>2
          <5> QED BY Zenon, <1>1, <5>1, <5>3
        <4> QED BY Zenon, <4>1, <4>2
      <3> QED BY Zenon, <3>6, <3>7, <3>10
    <2> QED BY Zenon, <2>1, <2>2
  <1>5. \A c \in D \cup {NULL} : g[c] = IF c = NULL THEN <<>> ELSE <<c>> \o g[nx[c]] BY Zenon, <1>1, <1>4
  <1>6. g = Walk(nx, D, g) BY Zenon, <1>3, <1>5 DEF Walk
  <1> QED BY Zenon, <1>6 DEF Walks

-----------------------------------------------------------------------------
(* The tree.                                                               *)

Kids(nd, p) == {n \in DOMAIN nd \ {ROOT} : nd[n].parent = p}
Nx(nd) == [k \in DOMAIN nd |-> nd[k].next_sibling]
NodeRecord == [name : Names \cup {"root"}, parent : Int, first_child : Int, next_sibling : Int]

Tree(nd) ==
    /\ ROOT \in DOMAIN nd /\ DOMAIN nd \subseteq Nat \cup {ROOT}
    /\ nd \in [DOMAIN nd -> NodeRecord]
    /\ \A p \in DOMAIN nd : \E q : Lists(Nx(nd), q, nd[p].first_child, Kids(nd, p))
    /\ \A n \in DOMAIN nd : nd[n].parent \in DOMAIN nd \cup {NULL}
    /\ \A n \in DOMAIN nd : nd[n].parent = NULL => nd[n].next_sibling = NULL
    /\ nd[ROOT].parent = NULL

LEMMA NullIsNoNode == ASSUME NEW nd, Tree(nd) PROVE NULL \notin DOMAIN nd /\ NULL # ROOT
  <1>1. NULL \notin Nat \cup {ROOT} BY DEF NULL, ROOT
  <1> QED BY Zenon, <1>1 DEF Tree

\* hfs_find_child goes through each node's children, in the order of the links.
LEMMA ChildrenAre ==
  ASSUME Tree(node), NEW p \in DOMAIN node
  PROVE  Lists(Nx(node), Children(p), node[p].first_child, Kids(node, p))
  <1> DEFINE D == DOMAIN node
             nx == Nx(node)
             par == [n \in D |-> node[n].parent]
             F == [n \in D |-> node[n].first_child]
             KK == [n \in D |-> Kids(node, n)]
             Q == [n \in D |-> CHOOSE q : Lists(nx, q, F[n], KK[n])]
             from == CHOOSE g : g = [c \in D \cup {NULL} |-> IF c = NULL THEN <<>> ELSE <<c>> \o g[node[c].next_sibling]]
  <1>1. NULL \notin D /\ NULL # ROOT BY Zenon, NullIsNoNode
  <1>2. \A n \in D : Lists(nx, Q[n], F[n], KK[n]) BY Zenon DEF Tree
  <1>3. \A c \in D : nx[c] = node[c].next_sibling /\ par[c] = node[c].parent BY Zenon DEF Nx
  <1>4. \A n \in D : \A k : k \in KK[n] <=> k \in D /\ k # ROOT /\ node[k].parent = n BY Zenon DEF Kids
  <1>5. \A c \in D : par[c] # NULL => par[c] \in D /\ c # ROOT BY Zenon, <1>3 DEF Tree
  <1>6. \A c \in D : par[c] = NULL => nx[c] = NULL BY Zenon, <1>3 DEF Tree
  <1>k. KK[p] = Kids(node, p) /\ F[p] = node[p].first_child BY Zenon
  <1>w. \A g : Walk(nx, D, g) = [c \in D \cup {NULL} |-> IF c = NULL THEN <<>> ELSE <<c>> \o g[node[c].next_sibling]]
    BY Zenon, <1>3 DEF Walk
  <1>c. Children(p) = from[node[p].first_child] BY Zenon DEF Children
  <1> HIDE DEF nx, par, F, KK, Q
  <1>7. \A c \in D : par[c] # NULL => c \in KK[par[c]] /\ Lists(nx, Q[par[c]], F[par[c]], KK[par[c]])
    BY Zenon, <1>2, <1>3, <1>4, <1>5
  <1>8. \A c \in D : \A k : par[c] # NULL /\ k \in KK[par[c]] => k \in D /\ par[k] = par[c]
    BY Zenon, <1>3, <1>4, <1>5
  <1>a. InLists(nx, D, par, Q, F, KK) BY Zenon, <1>6, <1>7, <1>8 DEF InLists
  <1>9. Walks(nx, D) BY Zenon, <1>1, <1>a, WalkExists
  <1>10. from = Walk(nx, D, from) BY Zenon, <1>9, <1>w DEF Walks
  <1> HIDE DEF from
  <1>11. KK[p] \subseteq D BY Zenon, <1>4
  <1>12. Lists(nx, Q[p], F[p], KK[p]) BY Zenon, <1>2
  <1>13. from[F[p]] = Q[p] BY Zenon, <1>1, <1>10, <1>11, <1>12, WalkLists
  <1> QED BY Zenon, <1>12, <1>13, <1>c, <1>k DEF nx

\* What hfs_find_child returns is a node or NULL.
LEMMA FindsNode == ASSUME Tree(node), NEW name PROVE FindChild(ROOT, name) \in DOMAIN node \cup {NULL}
  <1> DEFINE kids == Children(ROOT)
             found == {i \in DOMAIN kids : node[kids[i]].name = name}
             i0 == CHOOSE i \in found : \A j \in found : i <= j
  <1>1. Lists(Nx(node), kids, node[ROOT].first_child, Kids(node, ROOT)) BY Zenon, ChildrenAre DEF Tree
  <1>2. kids \in Seq(Kids(node, ROOT)) BY Zenon, <1>1 DEF Lists
  <1>3. FindChild(ROOT, name) = IF found = {} THEN NULL ELSE kids[i0] BY Zenon DEF FindChild
  <1> HIDE DEF kids
  <1>4. DOMAIN kids \subseteq Nat /\ \A i \in DOMAIN kids : kids[i] \in Kids(node, ROOT) BY <1>2
  <1>5. CASE found = {} BY Zenon, <1>3, <1>5
  <1>6. CASE found # {}
    <2>1. found \subseteq Nat /\ found \subseteq DOMAIN kids BY Zenon, <1>4
    <2>2. i0 \in found
      <3> HIDE DEF found
      <3>1. \E i \in found : \A j \in found : i <= j BY Zenon, <1>6, <2>1, Least
      <3> QED BY Zenon, <3>1
    <2> HIDE DEF i0
    <2>3. kids[i0] \in DOMAIN node BY Zenon, <1>4, <2>1, <2>2 DEF Kids
    <2> QED BY Zenon, <1>3, <1>6, <2>3
  <1> QED BY Zenon, <1>5, <1>6

\* What a list of K says about K.
ListsAll(nx, q, f, K) ==
    /\ f \in K \cup {NULL} /\ Members(q) = K
    /\ \A i, j \in DOMAIN q : q[i] = q[j] => i = j
    /\ \A k \in K : nx[k] \in K \cup {NULL}

LEMMA ListsAllOf == ASSUME NEW nx, NEW q, NEW f, NEW K, Lists(nx, q, f, K) PROVE ListsAll(nx, q, f, K)
  <1>1. q \in Seq(K) BY Zenon DEF Lists
  <1>2. DOMAIN q = 1 .. Len(q) /\ \A i \in 1 .. Len(q) : q[i] \in K BY <1>1
  <1>3. \A i : At(q, i) \in K \cup {NULL} BY Zenon, <1>2 DEF At
  <1>4. \A k : k \in Members(q) <=> \E i \in 1 .. Len(q) : q[i] = k BY Zenon, <1>2 DEF Members
  <1>5. Members(q) = K
    <2>1. \A k \in K : \E i \in 1 .. Len(q) : q[i] = k BY Zenon DEF Lists
    <2>2. K \subseteq Members(q) BY Zenon, <1>4, <2>1
    <2>3. ASSUME NEW k \in Members(q) PROVE k \in K
      <3>1. PICK i \in 1 .. Len(q) : q[i] = k BY Zenon, <1>4
      <3>2. q[i] \in K BY Zenon, <1>2
      <3> QED BY Zenon, <3>1, <3>2
    <2> QED BY Zenon, <2>2, <2>3
  <1>6. \A k \in K : nx[k] \in K \cup {NULL}
    <2> SUFFICES ASSUME NEW k \in K PROVE nx[k] \in K \cup {NULL} OBVIOUS
    <2>1. PICK i \in 1 .. Len(q) : q[i] = k BY Zenon DEF Lists
    <2>2. nx[q[i]] = At(q, i + 1) BY Zenon DEF Lists
    <2> QED BY Zenon, <1>3, <2>1, <2>2
  <1>7. f \in K \cup {NULL} BY Zenon, <1>3 DEF Lists
  <1>8. \A i, j \in DOMAIN q : q[i] = q[j] => i = j BY Zenon, <1>2 DEF Lists
  <1> QED BY Zenon, <1>5, <1>6, <1>7, <1>8 DEF ListsAll

\* The tree, with owned memory, is what was promised of it.
LEMMA TreeFound ==
  ASSUME Tree(node), \A n \in DOMAIN node \ {ROOT} : n \in DOMAIN held /\ held[n] = NODE
  PROVE  AttachedAreFound
  <1>1. \A p \in DOMAIN node : Lists(Nx(node), Children(p), node[p].first_child, Kids(node, p)) BY Zenon, ChildrenAre
  <1>2. \A p \in DOMAIN node : ListsAll(Nx(node), Children(p), node[p].first_child, Kids(node, p)) BY Zenon, <1>1, ListsAllOf
  <1>3. \A p \in DOMAIN node : node[p].first_child \in DOMAIN node \cup {NULL}
    <2> SUFFICES ASSUME NEW p \in DOMAIN node PROVE node[p].first_child \in DOMAIN node \cup {NULL} OBVIOUS
    <2>1. node[p].first_child \in Kids(node, p) \cup {NULL} BY Zenon, <1>2 DEF ListsAll
    <2> QED BY Zenon, <2>1 DEF Kids
  <1>4. \A n \in DOMAIN node : node[n].next_sibling \in DOMAIN node \cup {NULL}
    <2> SUFFICES ASSUME NEW n \in DOMAIN node PROVE node[n].next_sibling \in DOMAIN node \cup {NULL} OBVIOUS
    <2>1. CASE node[n].parent = NULL BY Zenon, <2>1 DEF Tree
    <2>2. CASE node[n].parent # NULL
      <3> DEFINE p == node[n].parent
      <3>1. p \in DOMAIN node /\ n # ROOT BY Zenon, <2>2 DEF Tree
      <3>2. n \in Kids(node, p) BY Zenon, <3>1 DEF Kids
      <3>3. Nx(node)[n] = node[n].next_sibling BY Zenon DEF Nx
      <3>4. Nx(node)[n] \in Kids(node, p) \cup {NULL} BY Zenon, <1>2, <3>1, <3>2 DEF ListsAll
      <3> QED BY Zenon, <3>3, <3>4 DEF Kids
    <2> QED BY Zenon, <2>1, <2>2
  <1>5. \A n \in DOMAIN node :
          {node[n].parent, node[n].first_child, node[n].next_sibling} \subseteq DOMAIN node \cup {NULL}
    BY Zenon, <1>3, <1>4 DEF Tree
  <1>6. NoDanglingLinks BY Zenon, <1>5 DEF NoDanglingLinks
  <1>7. \A p \in DOMAIN node : /\ Members(Children(p)) = Kids(node, p)
                               /\ \A i, j \in DOMAIN Children(p) : Children(p)[i] = Children(p)[j] => i = j
    BY Zenon, <1>2 DEF ListsAll
  <1> QED BY Zenon, <1>6, <1>7 DEF AttachedAreFound, Kids

-----------------------------------------------------------------------------
(* What hfs.c does to it.                                                  *)

\* A new node hangs nowhere.
LEMMA TreeFresh ==
  ASSUME NEW nd, Tree(nd), NEW c \in Nat, c \notin DOMAIN nd, NEW name \in Names
  PROVE  Tree(With(nd, c, Fresh(name)))
  <1> DEFINE ne == With(nd, c, Fresh(name))
  <1>0. NULL \in Int /\ c # ROOT BY DEF NULL, ROOT
  <1>1. DOMAIN ne = DOMAIN nd \cup {c} /\ ne[c] = Fresh(name) BY Zenon DEF With
  <1>2. \A n \in DOMAIN nd : n # c /\ ne[n] = nd[n] BY Zenon DEF With
  <1>3. ne = [n \in DOMAIN ne |-> ne[n]] BY Zenon DEF With
  <1>4. ne[c].parent = NULL /\ ne[c].first_child = NULL /\ ne[c].next_sibling = NULL
    <2> HIDE DEF ne
    <2> QED BY <1>1 DEF Fresh
  <1>5. Fresh(name) \in NodeRecord
    <2>1. name \in Names \cup {"root"} BY Zenon
    <2> QED BY <1>0, <2>1 DEF Fresh, NodeRecord
  <1> HIDE DEF ne
  <1>6. NULL \notin DOMAIN nd BY Zenon, NullIsNoNode
  <1>7. \A k \in DOMAIN nd : Nx(ne)[k] = Nx(nd)[k] BY Zenon, <1>1, <1>2 DEF Nx
  <1>8. \A p \in DOMAIN nd : Kids(ne, p) = Kids(nd, p)
    <2> SUFFICES ASSUME NEW p \in DOMAIN nd PROVE Kids(ne, p) = Kids(nd, p) OBVIOUS
    <2>1. \A n : n \in Kids(ne, p) <=> n \in Kids(nd, p) BY Zenon, <1>1, <1>2, <1>4, <1>6 DEF Kids
    <2> QED BY Zenon, <2>1
  <1>9. Kids(ne, c) = {}
    <2> SUFFICES ASSUME NEW n \in Kids(ne, c) PROVE FALSE OBVIOUS
    <2>1. n \in DOMAIN ne /\ ne[n].parent = c BY Zenon DEF Kids
    <2>2. n # c BY <1>4, <2>1 DEF NULL
    <2>3. nd[n].parent = c /\ n \in DOMAIN nd BY Zenon, <1>1, <1>2, <2>1, <2>2
    <2>4. c \in DOMAIN nd \cup {NULL} BY Zenon, <2>3 DEF Tree
    <2>5. c # NULL BY DEF NULL
    <2> QED BY Zenon, <2>4, <2>5
  <1>10. \A p \in DOMAIN ne : \E q : Lists(Nx(ne), q, ne[p].first_child, Kids(ne, p))
    <2>1. ASSUME NEW p \in DOMAIN nd PROVE \E q : Lists(Nx(ne), q, ne[p].first_child, Kids(ne, p))
      <3>1. PICK q : Lists(Nx(nd), q, nd[p].first_child, Kids(nd, p)) BY Zenon DEF Tree
      <3>2. \A k \in Kids(nd, p) : Nx(ne)[k] = Nx(nd)[k] BY Zenon, <1>7 DEF Kids
      <3>3. Lists(Nx(ne), q, nd[p].first_child, Kids(nd, p)) BY Zenon, <3>1, <3>2, SameLinks
      <3> QED BY Zenon, <1>2, <1>8, <3>3
    <2>2. Lists(Nx(ne), <<>>, ne[c].first_child, Kids(ne, c)) BY Zenon, <1>4, <1>9, NoSiblings
    <2> QED BY Zenon, <1>1, <2>1, <2>2
  <1>11. ne \in [DOMAIN ne -> NodeRecord]
    <2>1. \A n \in DOMAIN ne : ne[n] \in NodeRecord BY Zenon, <1>1, <1>2, <1>5 DEF Tree
    <2> QED BY Zenon, <1>3, <2>1
  <1>12. ROOT \in DOMAIN ne /\ DOMAIN ne \subseteq Nat \cup {ROOT} BY Zenon, <1>1 DEF Tree
  <1>13. \A n \in DOMAIN ne : ne[n].parent \in DOMAIN ne \cup {NULL} BY Zenon, <1>1, <1>2, <1>4 DEF Tree
  <1>14. \A n \in DOMAIN ne : ne[n].parent = NULL => ne[n].next_sibling = NULL BY Zenon, <1>1, <1>2, <1>4 DEF Tree
  <1>15. ne[ROOT].parent = NULL BY Zenon, <1>2 DEF Tree
  <1> QED BY Zenon, <1>10, <1>11, <1>12, <1>13, <1>14, <1>15 DEF Tree, ne

\* hfs_add_child of a node that hangs nowhere.
LEMMA TreeLinked ==
  ASSUME NEW nd, Tree(nd), NEW p \in DOMAIN nd, NEW c \in DOMAIN nd, c # ROOT, p # c, nd[c].parent = NULL
  PROVE  Tree(Linked(nd, p, c))
  <1> DEFINE ne == Linked(nd, p, c)
             f == nd[p].first_child
             rc == [nd[c] EXCEPT !.parent = p, !.next_sibling = f]
             rp == [nd[p] EXCEPT !.first_child = c]
  <1>0. NULL \in Int /\ p \in Int /\ c \in Int /\ NULL \notin DOMAIN nd
    <2>1. NULL \in Int /\ \A n \in Nat \cup {ROOT} : n \in Int BY DEF ROOT, NULL
    <2>2. p \in Nat \cup {ROOT} /\ c \in Nat \cup {ROOT} BY Zenon DEF Tree
    <2> QED BY Zenon, <2>1, <2>2, NullIsNoNode
  <1>1. nd = [n \in DOMAIN nd |-> nd[n]] /\ \A n \in DOMAIN nd : nd[n] \in NodeRecord BY Zenon DEF Tree
  <1>2. /\ DOMAIN ne = DOMAIN nd /\ ne[c] = rc /\ ne[p] = rp
        /\ \A n \in DOMAIN nd : n # p /\ n # c => ne[n] = nd[n]
        /\ ne = [n \in DOMAIN ne |-> ne[n]]
    BY DEF Linked
  <1> HIDE DEF ne
  <1>3. f \in Int BY <1>1 DEF NodeRecord
  <1> HIDE DEF f
  <1>4. rc \in NodeRecord /\ rc.parent = p /\ rc.next_sibling = f /\ rc.first_child = nd[c].first_child
    BY Zenon, <1>0, <1>1, <1>3 DEF NodeRecord
  <1>5. rp \in NodeRecord /\ rp.parent = nd[p].parent /\ rp.next_sibling = nd[p].next_sibling /\ rp.first_child = c
    BY <1>0, <1>1 DEF NodeRecord
  <1> HIDE DEF rc, rp
  <1>6. \A n \in DOMAIN nd : n # c => ne[n].parent = nd[n].parent /\ ne[n].next_sibling = nd[n].next_sibling
    BY Zenon, <1>2, <1>5
  <1>7. \A n \in DOMAIN nd : n # p => ne[n].first_child = nd[n].first_child BY Zenon, <1>2, <1>4
  <1>8. ne[c].parent = p /\ ne[c].next_sibling = f /\ ne[p].first_child = c BY Zenon, <1>2, <1>4, <1>5
  <1>9. \A k \in DOMAIN nd : k # c => Nx(ne)[k] = Nx(nd)[k] BY Zenon, <1>2, <1>6 DEF Nx
  <1>10. \A o \in DOMAIN nd : c \notin Kids(nd, o) BY Zenon, <1>0 DEF Kids
  <1>11. ASSUME NEW o \in DOMAIN nd PROVE \E q : Lists(Nx(ne), q, ne[o].first_child, Kids(ne, o))
    <2>1. PICK q : Lists(Nx(nd), q, nd[o].first_child, Kids(nd, o)) BY Zenon DEF Tree
    <2>2. \A k \in Kids(nd, o) : Nx(ne)[k] = Nx(nd)[k] BY Zenon, <1>9, <1>10 DEF Kids
    <2>3. Lists(Nx(ne), q, nd[o].first_child, Kids(nd, o)) BY Zenon, <2>1, <2>2, SameLinks
    <2>4. CASE o = p
      <3>1. \A n : n \in Kids(ne, p) <=> n \in Kids(nd, p) \cup {c} BY Zenon, <1>2, <1>6, <1>8 DEF Kids
      <3>2. Kids(ne, p) = Kids(nd, p) \cup {c} BY Zenon, <3>1
      <3>3. Nx(ne)[c] = f BY Zenon, <1>2, <1>8 DEF Nx
      <3>4. \E r : Lists(Nx(ne), r, c, Kids(nd, p) \cup {c}) BY Zenon, <1>10, <2>3, <2>4, <3>3, PushChild DEF f
      <3> QED BY Zenon, <1>8, <2>4, <3>2, <3>4
    <2>5. CASE o # p
      <3>1. \A n : n \in Kids(ne, o) <=> n \in Kids(nd, o) BY Zenon, <1>2, <1>6, <1>8, <1>10, <2>5 DEF Kids
      <3>2. Kids(ne, o) = Kids(nd, o) BY Zenon, <3>1
      <3> QED BY Zenon, <1>7, <2>3, <2>5, <3>2
    <2> QED BY Zenon, <2>4, <2>5
  <1>12. ne \in [DOMAIN ne -> NodeRecord]
    <2>1. \A n \in DOMAIN ne : ne[n] \in NodeRecord BY Zenon, <1>1, <1>2, <1>4, <1>5
    <2> QED BY Zenon, <1>2, <2>1
  <1>13. \A n \in DOMAIN ne : ne[n].parent \in DOMAIN ne \cup {NULL} BY Zenon, <1>2, <1>6, <1>8 DEF Tree
  <1>14. \A n \in DOMAIN ne : ne[n].parent = NULL => ne[n].next_sibling = NULL BY Zenon, <1>0, <1>2, <1>6, <1>8 DEF Tree
  <1>15. ne[ROOT].parent = NULL BY Zenon, <1>6 DEF Tree
  <1> QED BY Zenon, <1>2, <1>11, <1>12, <1>13, <1>14, <1>15 DEF Tree, ne

\* hfs_remove of a node without children.
LEMMA TreeRemoved ==
  ASSUME Tree(node), NEW n \in DOMAIN node, n # ROOT, node[n].first_child = NULL, node[n].parent # NULL
  PROVE  Tree(Without(Unlinked(n), n))
  <1> DEFINE p == node[n].parent
             next == node[n].next_sibling
             un == Unlinked(n)
             ne == Without(un, n)
             K == Kids(node, p)
  <1>0. NULL \notin DOMAIN node BY Zenon, NullIsNoNode
  <1>1. node = [k \in DOMAIN node |-> node[k]] /\ \A k \in DOMAIN node : node[k] \in NodeRecord BY Zenon DEF Tree
  <1>2. p \in DOMAIN node /\ next \in Int
    <2>1. p \in DOMAIN node BY Zenon DEF Tree
    <2>2. next \in Int BY <1>1 DEF NodeRecord
    <2> QED BY Zenon, <2>1, <2>2
  <1>3. Kids(node, n) = {}
    <2>1. PICK q : Lists(Nx(node), q, NULL, Kids(node, n)) BY Zenon DEF Tree
    <2>2. NULL \notin Kids(node, n) BY Zenon, <1>0 DEF Kids
    <2> QED BY Zenon, <2>1, <2>2, EmptyList
  <1>4. p # n BY Zenon, <1>3 DEF Kids
  <1>5. PICK q : Lists(Nx(node), q, node[p].first_child, K) BY Zenon, <1>2 DEF Tree
  <1>6. n \in K /\ NULL \notin K /\ K \subseteq DOMAIN node BY Zenon, <1>0, <1>2 DEF Kids
  <1> HIDE DEF next
  <1>7. /\ DOMAIN un = DOMAIN node /\ un = [k \in DOMAIN un |-> un[k]]
        /\ \A k \in DOMAIN node :
              /\ un[k] \in NodeRecord /\ un[k].parent = node[k].parent
              /\ un[k].first_child = IF k = p /\ node[p].first_child = n THEN next ELSE node[k].first_child
              /\ un[k].next_sibling = IF k \in K /\ node[k].next_sibling = n THEN next ELSE node[k].next_sibling
    <2>1. CASE node[p].first_child = n
      <3>1. un = [node EXCEPT ![p].first_child = next] BY Zenon, <2>1 DEF Unlinked, next
      <3>2. \A k \in K : node[k].next_sibling # n
        <4>1. q \in Seq(K) BY Zenon, <1>5 DEF Lists
        <4>2. Len(q) \in Nat BY <4>1
        <4> SUFFICES ASSUME NEW k \in K, node[k].next_sibling = n PROVE FALSE OBVIOUS
        <4>3. PICK i \in 1 .. Len(q) : q[i] = k BY Zenon, <1>5 DEF Lists
        <4>4. At(q, i + 1) = n /\ At(q, 1) = n BY Zenon, <1>5, <1>6, <2>1, <4>3 DEF Lists, Nx
        <4>5. i + 1 \in 1 .. Len(q) /\ 1 \in 1 .. Len(q) BY Zenon, <1>6, <4>4 DEF At
        <4>a. PICK j \in 1 .. Len(q) : j = i + 1 BY Zenon, <4>5
        <4>b. q[j] = n /\ q[1] = n BY Zenon, <4>4, <4>5, <4>a DEF At
        <4>c. \A a, b \in 1 .. Len(q) : q[a] = q[b] => a = b BY Zenon, <1>5 DEF Lists
        <4>6. i + 1 = 1 BY Zenon, <4>5, <4>a, <4>b, <4>c
        <4> QED BY <4>2, <4>6
      <3> DEFINE r == [node[p] EXCEPT !.first_child = next]
      <3>3. DOMAIN un = DOMAIN node /\ un = [k \in DOMAIN un |-> un[k]] BY Zenon, <1>1, <3>1
      <3>4. un[p] = r /\ \A k \in DOMAIN node : k # p => un[k] = node[k] BY Zenon, <1>1, <1>2, <3>1
      <3>5. r \in NodeRecord /\ r.parent = node[p].parent /\ r.first_child = next /\ r.next_sibling = node[p].next_sibling
        <4> HIDE DEF un, p, K
        <4> QED BY <1>1, <1>2 DEF NodeRecord
      <3> HIDE DEF un, r
      <3>6. \A k \in DOMAIN node : /\ un[k] \in NodeRecord /\ un[k].parent = node[k].parent
                                   /\ un[k].next_sibling = node[k].next_sibling
        BY Zenon, <1>1, <3>4, <3>5
      <3>7. \A k \in DOMAIN node : un[k].first_child = IF k = p THEN next ELSE node[k].first_child BY Zenon, <3>4, <3>5
      <3> QED BY Zenon, <2>1, <3>2, <3>3, <3>6, <3>7
    <2>2. CASE node[p].first_child # n
      <3> DEFINE before == {k \in DOMAIN node \ {ROOT} : node[k].parent = p /\ node[k].next_sibling = n}
                 R(k) == [node[k] EXCEPT !.next_sibling = next]
      <3>1. un = [k \in DOMAIN node |-> IF k \in before THEN R(k) ELSE node[k]] BY Zenon, <2>2 DEF Unlinked, next
      <3>2. \A k \in DOMAIN node : k \in before <=> k \in K /\ node[k].next_sibling = n BY Zenon DEF Kids
      <3>3. \A k \in DOMAIN node : /\ R(k) \in NodeRecord /\ R(k).parent = node[k].parent
                                   /\ R(k).first_child = node[k].first_child /\ R(k).next_sibling = next
        <4> HIDE DEF un, p, K, before
        <4> QED BY <1>1, <1>2 DEF NodeRecord
      <3> HIDE DEF R, before
      <3>4. DOMAIN un = DOMAIN node /\ un = [k \in DOMAIN un |-> un[k]] BY Zenon, <3>1
      <3>5. \A k \in DOMAIN node : un[k] = IF k \in before THEN R(k) ELSE node[k] BY Zenon, <3>1
      <3> HIDE DEF un
      <3>6. \A k \in DOMAIN node : /\ un[k] \in NodeRecord /\ un[k].parent = node[k].parent
                                   /\ un[k].first_child = node[k].first_child
        BY Zenon, <1>1, <3>3, <3>5
      <3>7. \A k \in DOMAIN node : un[k].next_sibling = IF k \in K /\ node[k].next_sibling = n THEN next ELSE node[k].next_sibling
        BY ZenonT(60), <3>2, <3>3, <3>5
      <3> QED BY Zenon, <2>2, <3>4, <3>6, <3>7
    <2> QED BY Zenon, <2>1, <2>2
  <1> HIDE DEF un
  <1>8. /\ DOMAIN ne = DOMAIN node \ {n} /\ ne = [k \in DOMAIN ne |-> ne[k]]
        /\ \A k \in DOMAIN node : k # n => ne[k] = un[k]
    BY Zenon, <1>7 DEF Without
  <1> HIDE DEF ne
  <1>9. \A k \in DOMAIN ne : k \in DOMAIN node /\ k # n /\ ne[k].parent = node[k].parent /\ ne[k] \in NodeRecord
    BY Zenon, <1>7, <1>8
  <1>10. \A k \in K \ {n} : Nx(ne)[k] = IF Nx(node)[k] = n THEN Nx(node)[n] ELSE Nx(node)[k]
    BY Zenon, <1>6, <1>7, <1>8 DEF Nx, next
  <1>11. \A k \in DOMAIN ne : k \notin K => Nx(ne)[k] = Nx(node)[k] BY Zenon, <1>7, <1>8 DEF Nx
  <1>12. ASSUME NEW o \in DOMAIN ne PROVE \E r : Lists(Nx(ne), r, ne[o].first_child, Kids(ne, o))
    <2>1. o \in DOMAIN node /\ o # n BY Zenon, <1>8
    <2>2. CASE o = p
      <3>1. \A k : k \in Kids(ne, p) <=> k \in K \ {n} BY Zenon, <1>8, <1>9 DEF Kids
      <3>2. Kids(ne, p) = K \ {n} BY Zenon, <3>1
      <3>3. ne[p].first_child = IF node[p].first_child = n THEN Nx(node)[n] ELSE node[p].first_child
        BY Zenon, <1>2, <1>4, <1>7, <1>8 DEF Nx, next
      <3>4. \E r : Lists(Nx(ne), r, ne[p].first_child, K \ {n})
        <4>1. Skips(Nx(node), Nx(ne), node[p].first_child, ne[p].first_child, K, n) BY Zenon, <1>10, <3>3 DEF Skips
        <4> HIDE DEF K, p
        <4> QED BY Zenon, <1>5, <1>6, <4>1, DropChild
      <3> QED BY Zenon, <2>2, <3>2, <3>4
    <2>3. CASE o # p
      <3>1. PICK r : Lists(Nx(node), r, node[o].first_child, Kids(node, o)) BY Zenon, <2>1 DEF Tree
      <3>2. \A k : k \in Kids(ne, o) <=> k \in Kids(node, o) BY Zenon, <1>8, <1>9, <2>3 DEF Kids
      <3>3. Kids(ne, o) = Kids(node, o) BY Zenon, <3>2
      <3>4. \A k \in Kids(node, o) : k \in DOMAIN ne /\ k \notin K BY Zenon, <1>8, <2>3 DEF Kids
      <3>5. \A k \in Kids(node, o) : Nx(ne)[k] = Nx(node)[k] BY Zenon, <1>11, <3>4
      <3>6. Lists(Nx(ne), r, node[o].first_child, Kids(node, o)) BY Zenon, <3>1, <3>5, SameLinks
      <3>7. ne[o].first_child = node[o].first_child BY Zenon, <1>7, <1>8, <2>1, <2>3
      <3> QED BY Zenon, <3>3, <3>6, <3>7
    <2> QED BY Zenon, <2>2, <2>3
  <1>13. \A k \in DOMAIN ne : ne[k].parent \in DOMAIN ne \cup {NULL}
    <2> SUFFICES ASSUME NEW k \in DOMAIN ne PROVE ne[k].parent \in DOMAIN ne \cup {NULL} OBVIOUS
    <2>1. k \in DOMAIN node /\ ne[k].parent = node[k].parent BY Zenon, <1>9
    <2>2. node[k].parent \in DOMAIN node \cup {NULL} BY Zenon, <2>1 DEF Tree
    <2>3. node[k].parent # n
      <3> SUFFICES ASSUME node[k].parent = n PROVE FALSE OBVIOUS
      <3>1. k # ROOT BY Zenon, <1>0 DEF Tree
      <3> QED BY Zenon, <1>3, <2>1, <3>1 DEF Kids
    <2> QED BY Zenon, <1>8, <2>1, <2>2, <2>3
  <1>14. \A k \in DOMAIN ne : ne[k].parent = NULL => ne[k].next_sibling = NULL
    <2> SUFFICES ASSUME NEW k \in DOMAIN ne, ne[k].parent = NULL PROVE ne[k].next_sibling = NULL OBVIOUS
    <2>1. k \in DOMAIN node /\ node[k].parent = NULL /\ k # n BY Zenon, <1>9
    <2>2. k \notin K BY Zenon, <2>1 DEF Kids
    <2>3. ne[k].next_sibling = node[k].next_sibling BY Zenon, <1>7, <1>8, <2>1, <2>2
    <2> QED BY Zenon, <2>1, <2>3 DEF Tree
  <1>15. ROOT \in DOMAIN ne /\ DOMAIN ne \subseteq Nat \cup {ROOT} BY Zenon, <1>8 DEF Tree
  <1>16. ne[ROOT].parent = NULL BY Zenon, <1>9, <1>15 DEF Tree
  <1>17. ne \in [DOMAIN ne -> NodeRecord] BY Zenon, <1>8, <1>9
  <1> QED BY Zenon, <1>12, <1>13, <1>14, <1>15, <1>16, <1>17 DEF Tree, ne, un
=============================================================================
