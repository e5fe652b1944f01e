--------------------------- MODULE ServicesProofs ---------------------------
(***************************************************************************)
(* What the kernel and the shell keep for programs: the ring of key        *)
(* presses, for any size of it and any number of readers; files, for any   *)
(* tables and any chunk of a copy; and the environment, for any pool.      *)
(***************************************************************************)
EXTENDS KbdBuffer, Vfs, Environ, SequenceTheorems, TLAPS

-----------------------------------------------------------------------------
(* The keyboard ring.                                                      *)

\* Succ without the remainder.
LEMMA SuccSlot ==
    ASSUME NEW j \in Slots
    PROVE  /\ Succ(j) = IF j + 1 = KBD_BUF_SIZE THEN 0 ELSE j + 1
           /\ Succ(j) \in Slots
<1>1. KBD_BUF_SIZE \in Nat /\ KBD_BUF_SIZE > 0 /\ j \in Nat /\ j + 1 <= KBD_BUF_SIZE
  BY KbdAssumption DEF Slots
<1>2. CASE j + 1 = KBD_BUF_SIZE
  BY <1>1, <1>2 DEF Succ, Slots
<1>3. CASE j + 1 # KBD_BUF_SIZE
  BY <1>1, <1>3 DEF Succ, Slots
<1> QED BY <1>2, <1>3

KbdInv == KbdTypeOK /\ PopUndisturbed

LEMMA KbdInitInv == KbdInit => KbdInv
<1> SUFFICES ASSUME KbdInit PROVE KbdInv
  OBVIOUS
<1>1. 0 \in Slots
  BY KbdAssumption DEF Slots
<1> QED BY <1>1 DEF KbdInit, KbdInv, KbdTypeOK, PopUndisturbed

LEMMA KbdNextInv == KbdInv /\ [KbdNext]_kbd_vars => KbdInv'
<1> SUFFICES ASSUME KbdInv, [KbdNext]_kbd_vars PROVE KbdInv'
  OBVIOUS
<1> USE DEF KbdInv
<1>0. Succ(g_head) \in Slots /\ Succ(g_tail) \in Slots
  BY SuccSlot DEF KbdTypeOK
<1>1. ASSUME NEW c \in KeyChars, Irq1(c) PROVE KbdInv'
  <2>1. CASE Succ(g_head) = g_tail
    BY <1>1, <2>1 DEF Irq1, Push, ring, KbdTypeOK, PopUndisturbed
  <2>2. CASE Succ(g_head) # g_tail
    BY <1>0, <1>1, <2>2 DEF Irq1, Push, KbdTypeOK, PopUndisturbed
  <2> QED BY <2>1, <2>2
<1>2. ASSUME NEW r \in Readers, r = running, EnterRead(r) PROVE KbdInv'
  BY <1>2 DEF EnterRead, KbdTypeOK, PopUndisturbed
<1>3. ASSUME NEW r \in Readers, r = running, Yield(r) PROVE KbdInv'
  BY <1>3 DEF Yield, KbdTypeOK, PopUndisturbed
<1>9. ASSUME NEW r \in Readers, r = running, PopEmpty(r) PROVE KbdInv'
  BY <1>9 DEF PopEmpty, KbdTypeOK, PopUndisturbed
<1>4. ASSUME NEW r \in Readers, r = running, PopTest(r) PROVE KbdInv'
  BY <1>4 DEF PopTest, KbdTypeOK, PopUndisturbed
<1>5. ASSUME NEW r \in Readers, r = running, PopLoad(r) PROVE KbdInv'
  BY <1>5 DEF PopLoad, KbdTypeOK, PopUndisturbed
<1>6. ASSUME NEW r \in Readers, r = running, PopAdvance(r) PROVE KbdInv'
  BY <1>0, <1>6 DEF PopAdvance, KbdTypeOK, PopUndisturbed
<1>7. CASE UNCHANGED kbd_vars
  BY <1>7 DEF kbd_vars, KbdTypeOK, PopUndisturbed
<1>8. running \in Readers
  BY DEF KbdTypeOK
<1> QED
  BY <1>1, <1>2, <1>3, <1>9, <1>4, <1>5, <1>6, <1>7, <1>8 DEF KbdNext, Step

\* No number of interrupts disturbs a kbd_buffer_pop under way.
THEOREM KbdSafety == KbdSpec => [](KbdTypeOK /\ PopUndisturbed)
BY KbdInitInv, KbdNextInv, PTL DEF KbdSpec, KbdInv

\* Both indices stay inside the ring (kbd_buffer.c:11-29).
THEOREM RingTypes == KbdSpec => []KbdTypeOK
BY KbdSafety, PTL

-----------------------------------------------------------------------------
(* The refinement.                                                         *)

\* The queue read off the ring.
LEMMA QueueShape ==
    ASSUME KbdTypeOK
    PROVE  /\ Count \in 0 .. KBD_BUF_SIZE - 1
           /\ Count = 0 <=> g_tail = g_head
           /\ Count = KBD_BUF_SIZE - 1 <=> Succ(g_head) = g_tail
           /\ \A j \in 1 .. Count + 1 : Slot(j) \in Slots
           /\ Slot(Count + 1) = g_head
           /\ Count # 0 => Slot(1) = g_tail
           /\ \A j \in 1 .. Count : Slot(j) # g_head
<1>1. /\ KBD_BUF_SIZE \in Nat \ {0}
      /\ g_head \in 0 .. KBD_BUF_SIZE - 1
      /\ g_tail \in 0 .. KBD_BUF_SIZE - 1
  BY KbdAssumption DEF KbdTypeOK, Slots
<1>2. Succ(g_head) = IF g_head + 1 = KBD_BUF_SIZE THEN 0 ELSE g_head + 1
  BY SuccSlot DEF KbdTypeOK
<1> QED BY <1>1, <1>2 DEF Count, Slot, Slots

LEMMA QueueSeq ==
    ASSUME KbdTypeOK
    PROVE  /\ Queue \in Seq(KeyChars \cup {ZERO})
           /\ Len(Queue) = Count
           /\ \A j \in 1 .. Count : Queue[j] = g_buf[Slot(j)]
<1>1. Count \in Nat /\ \A j \in 1 .. Count : Slot(j) \in Slots
  BY QueueShape, KbdAssumption DEF Slots
<1>2. Queue \in [1 .. Count -> KeyChars \cup {ZERO}]
  BY <1>1 DEF Queue, KbdTypeOK
<1> QED BY <1>1, <1>2 DEF Queue

\* A push that finds room appends.
LEMMA PushAppends ==
    ASSUME KbdTypeOK, KbdTypeOK', NEW c \in KeyChars,
           Succ(g_head) # g_tail,
           g_buf' = [g_buf EXCEPT ![g_head] = c],
           g_head' = Succ(g_head),
           g_tail' = g_tail
    PROVE  Queue' = Append(Queue, c)
<1>1. /\ KBD_BUF_SIZE \in Nat \ {0}
      /\ g_head \in 0 .. KBD_BUF_SIZE - 1
      /\ g_tail \in 0 .. KBD_BUF_SIZE - 1
      /\ g_head' = IF g_head + 1 = KBD_BUF_SIZE THEN 0 ELSE g_head + 1
  BY ZenonT(60), KbdAssumption, SuccSlot DEF KbdTypeOK, Slots
<1>2. Count' = Count + 1
  BY <1>1 DEF Count
<1>3. \A j \in Nat : Slot(j)' = Slot(j)
  BY <1>1 DEF Slot
<1>4. /\ Queue' = [j \in 1 .. Count + 1 |-> g_buf'[Slot(j)]]
      /\ Count \in Nat
  BY <1>2, <1>3, QueueShape, <1>1 DEF Queue
<1>5. \A j \in 1 .. Count : g_buf'[Slot(j)] = g_buf[Slot(j)]
  BY QueueShape, <1>4 DEF KbdTypeOK
<1>6. g_buf'[Slot(Count + 1)] = c
  BY QueueShape DEF KbdTypeOK
<1> DEFINE S == KeyChars \cup {ZERO}
<1>7. /\ Append(Queue, c) \in Seq(S)
      /\ Len(Append(Queue, c)) = Count + 1
      /\ \A j \in 1 .. Count : Append(Queue, c)[j] = Queue[j]
      /\ Append(Queue, c)[Count + 1] = c
  BY QueueSeq, <1>4
<1>8. Queue' \in [1 .. Count + 1 -> S]
  BY <1>4, QueueShape DEF KbdTypeOK
<1>9. Queue' \in Seq(S) /\ Len(Queue') = Count + 1
  BY <1>4, <1>8
<1>10. \A j \in 1 .. Count + 1 : Queue'[j] = Append(Queue, c)[j]
  BY <1>4, <1>5, <1>6, <1>7, QueueSeq
<1> QED BY <1>7, <1>9, <1>10, SeqEqual

\* Moving g_tail drops the head.
LEMMA PopTakesHead ==
    ASSUME KbdTypeOK, KbdTypeOK',
           g_tail # g_head,
           g_tail' = Succ(g_tail),
           UNCHANGED <<g_buf, g_head>>
    PROVE  /\ Queue # << >>
           /\ Head(Queue) = g_buf[g_tail]
           /\ Queue' = Tail(Queue)
<1>1. /\ KBD_BUF_SIZE \in Nat \ {0}
      /\ g_head \in 0 .. KBD_BUF_SIZE - 1
      /\ g_tail \in 0 .. KBD_BUF_SIZE - 1
      /\ g_tail' = IF g_tail + 1 = KBD_BUF_SIZE THEN 0 ELSE g_tail + 1
  BY Z3T(60), KbdAssumption, SuccSlot DEF KbdTypeOK, Slots
<1>2. Count' = Count - 1 /\ Count \in Nat \ {0}
  BY <1>1 DEF Count
<1>3. \A j \in 1 .. Count - 1 : Slot(j)' = Slot(j + 1)
  BY <1>1, <1>2 DEF Slot, Count
<1>4. Queue' = [j \in 1 .. Count - 1 |-> g_buf[Slot(j + 1)]]
  BY <1>2, <1>3 DEF Queue
<1>5. /\ Queue # << >>
      /\ Head(Queue) = g_buf[g_tail]
  BY <1>2, QueueSeq, QueueShape
<1> DEFINE S == KeyChars \cup {ZERO}
<1>6. /\ Tail(Queue) \in Seq(S)
      /\ Len(Tail(Queue)) = Count - 1
      /\ \A j \in 1 .. Count - 1 : Tail(Queue)[j] = Queue[j + 1]
  BY <1>2, <1>5, QueueSeq, HeadTailProperties
<1>7. \A j \in 1 .. Count - 1 : Queue[j + 1] = g_buf[Slot(j + 1)]
  BY <1>2, QueueSeq
<1>8. Queue' \in [1 .. Count - 1 -> S]
  BY <1>2, <1>4, QueueShape DEF KbdTypeOK
<1>9. Queue' \in Seq(S) /\ Len(Queue') = Count - 1
  BY <1>2, <1>4, <1>8
<1>10. \A j \in 1 .. Count - 1 : Queue'[j] = Tail(Queue)[j]
  BY <1>4, <1>6, <1>7
<1>11. Queue' = Tail(Queue)
  BY <1>6, <1>9, <1>10, SeqEqual
<1> QED BY <1>5, <1>11

LEMMA InitFifo == KbdInit => Promise!Init
<1> SUFFICES ASSUME KbdInit PROVE Promise!Init
  OBVIOUS
<1>1. Count = 0
  BY DEF KbdInit, Count
<1>2. Queue = << >>
  BY <1>1 DEF Queue
<1> QED BY <1>2 DEF KbdInit, Promise!Init

LEMMA NextFifo == KbdInv /\ KbdInv' /\ [KbdNext]_kbd_vars => [Promise!Next]_<<Queue, fate, last>>
<1> SUFFICES ASSUME KbdInv, KbdInv', [KbdNext]_kbd_vars
             PROVE  Promise!Next \/ UNCHANGED <<Queue, fate, last>>
  OBVIOUS
<1> USE DEF KbdInv
<1>1. ASSUME NEW c \in KeyChars, Irq1(c) PROVE Promise!Next \/ UNCHANGED <<Queue, fate, last>>
  <2>1. CASE Succ(g_head) = g_tail
    <3>1. Len(Queue) = KBD_BUF_SIZE - 1
      BY <2>1, QueueShape, QueueSeq
    <3>2. Queue' = Queue
      BY <1>1, <2>1 DEF Irq1, Push, ring, Queue, Count, Slot
    <3>3. Promise!Drop
      BY <1>1, <2>1, <3>1, <3>2 DEF Irq1, Push, Promise!Drop
    <3> QED BY <3>3 DEF Promise!Next
  <2>2. CASE Succ(g_head) # g_tail
    <3>1. Len(Queue) < KBD_BUF_SIZE - 1
      BY <2>2, QueueShape, QueueSeq, KbdAssumption
    <3>2. Queue' = Append(Queue, c)
      BY <1>1, <2>2, PushAppends DEF Irq1, Push
    <3>3. Promise!Put(c)
      BY <1>1, <2>2, <3>1, <3>2 DEF Irq1, Push, Promise!Put
    <3> QED BY <3>3 DEF Promise!Next
  <2> QED BY <2>1, <2>2
<1>2. ASSUME UNCHANGED <<g_buf, g_head, g_tail, fate, last>>
      PROVE  UNCHANGED <<Queue, fate, last>>
  BY <1>2 DEF Queue, Count, Slot
<1>3. running \in Readers
  BY DEF KbdTypeOK
<1>4. CASE EnterRead(running) \/ Yield(running) \/ PopEmpty(running)
           \/ PopTest(running) \/ PopLoad(running)
  BY <1>2, <1>4 DEF EnterRead, Yield, PopEmpty, PopTest, PopLoad
<1>5. CASE PopAdvance(running)
  <2>1. g_tail # g_head /\ out[running] = g_buf[g_tail]
    BY <1>3, <1>5 DEF PopAdvance, PopUndisturbed
  <2>2. Queue # << >> /\ Head(Queue) = g_buf[g_tail] /\ Queue' = Tail(Queue)
    BY <1>5, <2>1, PopTakesHead DEF PopAdvance
  <2>3. Promise!Take(running)
    BY Zenon, <1>5, <2>1, <2>2 DEF PopAdvance, Promise!Take
  <2> QED BY <1>3, <2>3 DEF Promise!Next
<1>6. CASE UNCHANGED kbd_vars
  BY <1>2, <1>6 DEF kbd_vars
<1> QED
  BY <1>1, <1>4, <1>5, <1>6 DEF KbdNext, Step

\* The ring implements the queue, for every KBD_BUF_SIZE.
THEOREM RingIsFifo == KbdSpec => IsFifo
<1>1. KbdInv /\ KbdInv' /\ [KbdNext]_kbd_vars => [Promise!Next]_<<Queue, fate, last>>
  BY NextFifo
<1> QED BY <1>1, KbdInitInv, KbdNextInv, InitFifo, PTL DEF KbdSpec, IsFifo, Promise!Spec

-----------------------------------------------------------------------------
(* Files.                                                                  *)

LEMMA SeqElement == ASSUME NEW S, NEW s \in Seq(S), NEW i \in 1 .. Len(s) PROVE s[i] \in S
  OBVIOUS

LEMMA Prefix ==
  ASSUME NEW s \in Seq(Byte), NEW m \in 0 .. Len(s)
  PROVE  SubSeq(s, 1, m) \in Seq(Byte) /\ Len(SubSeq(s, 1, m)) = m
  OBVIOUS

LEMMA Slice ==
  ASSUME NEW s \in Seq(Byte), NEW a \in Nat, NEW b \in Nat, b <= Len(s)
  PROVE  SubSeq(s, a + 1, b) \in Seq(Byte)
  OBVIOUS

LEMMA NoWrap == ASSUME NEW a \in Nat, a < WORD PROVE a % WORD = a
  BY VfsAssumption

\* What a transfer needs of a handle.
LEMMA Opened ==
  ASSUME VfsTypeOK, NEW h \in Handles, HasOps(h)
  PROVE  /\ fds[h].node \in 1 .. Len(nodes)
         /\ nodes[fds[h].node] \in Node
         /\ Size(h) \in Nat
  <1>1. fds[h].node \in 1 .. Len(nodes) BY DEF VfsTypeOK, HasOps
  <1>2. nodes[fds[h].node] \in Node BY <1>1 DEF VfsTypeOK
  <1> QED BY <1>1, <1>2 DEF Size, Node

\* vfs_read never asks for more than is left, nor advances beyond the end.
LEMMA ReadWithin ==
  ASSUME VfsTypeOK, NoHoles, SumsFit, NEW h \in Handles, NEW size \in ReadSizes \cup {COPY_BUF},
         NEW n \in VfsReadResults(h, size), n > 0
  PROVE  HasOps(h) /\ n \in Nat /\ fds[h].off + n <= Size(h)
  <1>1. HasOps(h) /\ fds[h].off < Size(h) /\ n \in -1 .. Clamped(h, size)
    <2>1. HasOps(h) BY DEF VfsReadResults
    <2>2. Size(h) \in Nat /\ fds[h].off \in Nat BY <2>1, Opened DEF VfsTypeOK
    <2> QED BY <2>1, <2>2 DEF VfsReadResults
  <1>2. Size(h) \in Nat /\ fds[h].off \in Nat /\ size \in Nat
    BY <1>1, Opened, VfsAssumption DEF VfsTypeOK
  <1>3. (fds[h].off + size) % WORD = fds[h].off + size
    BY <1>2, NoWrap DEF SumsFit
  <1>4. Clamped(h, size) \in Int /\ fds[h].off + Clamped(h, size) <= Size(h)
    BY <1>1, <1>2, <1>3 DEF Clamped
  <1> QED BY <1>1, <1>2, <1>4

\* A write changes one node, which does not shrink and reaches as far as was
\* written.
LEMMA WriteGrows ==
  ASSUME VfsTypeOK, NoHoles, NEW h \in Handles, HasOps(h), NEW bytes \in Seq(Byte)
  PROVE  /\ Written(h, bytes) \in Seq(Node)
         /\ Len(Written(h, bytes)) = Len(nodes)
         /\ \A i \in 1 .. Len(nodes) :
              /\ Written(h, bytes)[i].name = nodes[i].name
              /\ Written(h, bytes)[i].dir = nodes[i].dir
              /\ Len(Written(h, bytes)[i].data) \in Nat
              /\ Len(Written(h, bytes)[i].data) >= Len(nodes[i].data)
         /\ Len(Written(h, bytes)[fds[h].node].data) >= fds[h].off + Len(bytes)
  <1> DEFINE k == fds[h].node
             off == fds[h].off
             old == nodes[k].data
             top == Max2(Len(old), off + Len(bytes))
             new == [i \in 1 .. top |-> IF i - off \in DOMAIN bytes THEN bytes[i - off] ELSE old[i]]
  <1>1. k \in 1 .. Len(nodes) /\ nodes[k] \in Node /\ old \in Seq(Byte) /\ off \in Nat /\ off <= Len(old)
    BY Opened DEF VfsTypeOK, NoHoles, Size, Node
  <1>2. top \in Nat /\ top >= Len(old) /\ top >= off + Len(bytes)
    <2> HIDE DEF old, off
    <2>1. Len(old) \in Nat /\ Len(bytes) \in Nat BY <1>1
    <2> QED BY <1>1, <2>1 DEF Max2
  <1>3. new \in Seq(Byte) /\ Len(new) = top
    <2>1. ASSUME NEW i \in 1 .. top PROVE new[i] \in Byte
      <3>1. CASE i - off \in DOMAIN bytes BY <3>1
      <3>2. CASE i - off \notin DOMAIN bytes
        <4>1. i \in 1 .. Len(old) BY Z3T(60), <3>2, <1>1, <1>2 DEF Max2
        <4> HIDE DEF old, off
        <4> QED BY <4>1, <3>2, <1>1
      <3> QED BY <3>1, <3>2
    <2> HIDE DEF top
    <2>2. new \in [1 .. top -> Byte] BY <2>1
    <2> HIDE DEF new
    <2> QED BY <2>2, <1>2
  <1>4. Written(h, bytes) = [nodes EXCEPT ![k] = [nodes[k] EXCEPT !.data = new]]
    BY <1>1 DEF Written
  <1> HIDE DEF k, off, new, top
  <1>5. [nodes[k] EXCEPT !.data = new] \in Node BY Zenon, <1>1, <1>3 DEF Node
  <1>6. nodes \in Seq(Node) BY DEF VfsTypeOK
  <1>7. Written(h, bytes) \in Seq(Node) /\ Len(Written(h, bytes)) = Len(nodes)
    BY <1>1, <1>4, <1>5, <1>6
  <1>8. ASSUME NEW i \in 1 .. Len(nodes)
        PROVE  /\ Written(h, bytes)[i].name = nodes[i].name
               /\ Written(h, bytes)[i].dir = nodes[i].dir
               /\ Len(Written(h, bytes)[i].data) \in Nat
               /\ Len(Written(h, bytes)[i].data) >= Len(nodes[i].data)
    <2>1. nodes[i] \in Node BY <1>6
    <2>2. CASE i = k BY <2>2, <1>1, <1>2, <1>3, <1>4, <1>6 DEF Node
    <2>3. CASE i # k
      <3>1. Written(h, bytes)[i] = nodes[i] BY <2>3, <1>1, <1>4, <1>6
      <3> QED BY <3>1, <2>1 DEF Node
    <2> QED BY <2>2, <2>3
  <1>9. Written(h, bytes)[k].data = new BY <1>1, <1>4, <1>6 DEF Node
  <1> QED BY <1>2, <1>3, <1>7, <1>8, <1>9 DEF k, off

-----------------------------------------------------------------------------

\* The inductive invariant, as long as no sum wraps.
VfsInv == VfsTypeOK /\ NoHoles

LEMMA VfsInitInv == VfsInit => VfsInv
  BY DEF VfsInit, VfsInv, VfsTypeOK, NoHoles, HasOps, Closed

LEMMA AdvanceType ==
  ASSUME VfsTypeOK, NEW h \in Handles, NEW n \in Int
  PROVE  /\ Advanced(h, n) \in [Handles -> [node : Nat, off : Nat]]
         /\ \A g \in Handles : Advanced(h, n)[g].node = fds[g].node
         /\ \A g \in Handles \ {h} : Advanced(h, n)[g].off = fds[g].off
         /\ Advanced(h, n)[h].off = IF n > 0 THEN fds[h].off + n ELSE fds[h].off
  BY DEF VfsTypeOK, Advanced

\* The same, named.
Moves(new, h, n) ==
  /\ \A g \in Handles : new[g].node = fds[g].node
  /\ \A g \in Handles \ {h} : new[g].off = fds[g].off
  /\ new[h].off = IF n > 0 THEN fds[h].off + n ELSE fds[h].off

LEMMA AdvanceMoves ==
  ASSUME VfsTypeOK, NEW h \in Handles, NEW n \in Int
  PROVE  Moves(Advanced(h, n), h, n)
  BY AdvanceType DEF Moves

\* A step that leaves the nodes and moves one handle as a read does.
LEMMA ReadKeeps ==
  ASSUME VfsInv, SumsFit, NEW h \in Handles, NEW size \in ReadSizes \cup {COPY_BUF},
         NEW n \in VfsReadResults(h, size), fds' = Advanced(h, n), nodes' = nodes,
         copy' \in CopyState \cup {NoCopy}
  PROVE  VfsInv'
  <1>1. n \in Int BY VfsAssumption, Opened DEF VfsReadResults, Clamped, VfsInv, VfsTypeOK
  <1>2. VfsTypeOK' BY Zenon, <1>1, AdvanceType DEF VfsInv, VfsTypeOK
  <1>3. ASSUME NEW g \in Handles, HasOps(g)' PROVE fds'[g].off <= Size(g)'
    <2>1. HasOps(g) /\ Size(g)' = Size(g) BY Zenon, <1>1, <1>3, AdvanceType DEF HasOps, Size, VfsInv
    <2>2. CASE g = h /\ n > 0 BY ZenonT(60), <1>1, <2>1, <2>2, ReadWithin, AdvanceType DEF VfsInv
    <2>3. CASE g # h \/ ~(n > 0)
      <3>1. fds'[g].off = fds[g].off BY ZenonT(60), <1>1, <2>3, AdvanceType DEF VfsInv
      <3> QED BY <3>1, <2>1 DEF VfsInv, NoHoles
    <2> QED BY <2>2, <2>3
  <1> QED BY <1>2, <1>3 DEF VfsInv, NoHoles

\* A step that writes through one handle.
LEMMA WriteKeeps ==
  ASSUME VfsInv, NEW h \in Handles, HasOps(h), NEW bytes \in Seq(Byte), Len(bytes) > 0,
         nodes' = Written(h, bytes), fds' = Advanced(h, Len(bytes)), copy' \in CopyState \cup {NoCopy}
  PROVE  VfsInv'
  <1>1. Len(bytes) \in Nat OBVIOUS
  <1>2. VfsTypeOK'
    <2>1. nodes' \in Seq(Node) /\ Len(nodes') = Len(nodes) BY WriteGrows DEF VfsInv
    <2>2. fds' \in [Handles -> [node : Nat, off : Nat]] /\ \A g \in Handles : fds'[g].node = fds[g].node
      BY <1>1, AdvanceType DEF VfsInv
    <2> QED BY <2>1, <2>2 DEF VfsInv, VfsTypeOK
  <1>3. ASSUME NEW g \in Handles, HasOps(g)' PROVE fds'[g].off <= Size(g)'
    <2>1. fds'[g].node = fds[g].node BY <1>1, AdvanceType DEF VfsInv
    <2>2. HasOps(g)
      BY <1>3, <2>1, WriteGrows DEF HasOps, VfsInv, VfsTypeOK
    <2>3. fds[g].node \in 1 .. Len(nodes) /\ Size(g) \in Nat /\ fds[g].off \in Nat
      BY <2>2, Opened DEF VfsInv, VfsTypeOK
    <2>4. Size(g)' \in Nat /\ Size(g)' >= Size(g)
      BY <2>1, <2>3, WriteGrows DEF Size, VfsInv
    <2>5. CASE g = h
      <3>1. Size(h)' >= fds[h].off + Len(bytes) BY <2>1, <2>5, WriteGrows DEF Size, VfsInv
      <3> QED BY <3>1, <1>1, <2>5, AdvanceType DEF VfsInv
    <2>6. CASE g # h
      <3>1. fds'[g].off = fds[g].off BY <1>1, <2>6, AdvanceType DEF VfsInv
      <3>2. fds[g].off <= Size(g) BY <2>2 DEF VfsInv, NoHoles
      <3> QED BY <3>1, <3>2, <2>3, <2>4
    <2> QED BY <2>5, <2>6
  <1> QED BY <1>2, <1>3 DEF VfsInv, NoHoles

\* A step that changes no file and moves no handle, but may add a node.
LEMMA RegisterKeeps ==
  ASSUME VfsInv, NEW node \in Node, VfsRegisterNode(node), fds' = fds, copy' = NoCopy
  PROVE  VfsInv'
  <1>1. nodes' \in Seq(Node) /\ Len(nodes') >= Len(nodes) /\ \A i \in 1 .. Len(nodes) : nodes'[i] = nodes[i]
    BY DEF VfsRegisterNode, VfsInv, VfsTypeOK
  <1>2. VfsTypeOK' BY <1>1 DEF VfsInv, VfsTypeOK
  <1>3. NoHoles'
    <2> SUFFICES ASSUME NEW g \in Handles, HasOps(g)' PROVE fds[g].off <= Size(g)'
      BY DEF NoHoles
    <2>1. fds[g].node \in 1 .. Len(nodes) BY DEF HasOps, VfsInv, VfsTypeOK
    <2>2. HasOps(g) /\ Size(g)' = Size(g) BY <1>1, <2>1 DEF HasOps, Size
    <2> QED BY <2>2 DEF VfsInv, NoHoles
  <1> QED BY <1>2, <1>3 DEF VfsInv

\* Every step keeps the invariant.
LEMMA VfsStep == VfsInv /\ SumsFit /\ [VfsNext]_vfs_vars => VfsInv'
  <1> SUFFICES ASSUME VfsInv, SumsFit, [VfsNext]_vfs_vars PROVE VfsInv'
    OBVIOUS
  <1> USE DEF VfsInv
  <1>1. ASSUME NEW p \in Paths, NEW d \in Contents, RegisterFile(p, d) PROVE VfsInv'
    <2>1. [name |-> p, dir |-> FALSE, data |-> d] \in Node BY VfsAssumption DEF Node
    <2> QED BY <1>1, <2>1, RegisterKeeps DEF RegisterFile
  <1>2. ASSUME NEW p \in Paths, VfsMkdir(p) PROVE VfsInv'
    <2>1. [name |-> Trunc[p], dir |-> TRUE, data |-> <<>>] \in Node BY VfsAssumption DEF Node
    <2> QED BY <1>2, <2>1, RegisterKeeps DEF VfsMkdir
  <1>3. ASSUME NEW p \in Paths, NEW h \in Handles, VfsOpen(h, p) PROVE VfsInv'
    <2>1. PICK i \in 1 .. Len(nodes) : fds' = [fds EXCEPT ![h] = [node |-> i, off |-> 0]]
      <3>1. DOMAIN nodes = 1 .. Len(nodes) BY DEF VfsTypeOK
      <3>2. VfsLookup(nodes, p) \subseteq DOMAIN nodes BY DEF VfsLookup
      <3> QED BY Zenon, <1>3, <3>1, <3>2 DEF VfsOpen
    <2>2. nodes' = nodes /\ copy' = NoCopy BY <1>3 DEF VfsOpen
    <2>3. VfsTypeOK' BY <2>1, <2>2 DEF VfsTypeOK
    <2>4. ASSUME NEW g \in Handles, HasOps(g)' PROVE fds'[g].off <= Size(g)'
      <3>1. CASE g = h
        <4>1. fds'[g].off = 0 BY <2>1, <3>1 DEF VfsTypeOK
        <4>2. Size(g)' \in Nat
          <5>1. fds'[g].node = i /\ nodes[i] \in Node BY <2>1, <3>1 DEF VfsTypeOK
          <5> QED BY <5>1, <2>2 DEF Size, Node
        <4> QED BY <4>1, <4>2
      <3>2. CASE g # h
        <4>1. fds'[g] = fds[g] BY <2>1, <3>2 DEF VfsTypeOK
        <4> QED BY <4>1, <2>2, <2>4 DEF NoHoles, HasOps, Size
      <3> QED BY <3>1, <3>2
    <2> QED BY <2>3, <2>4 DEF NoHoles
  <1>4. ASSUME NEW h \in Handles, NEW n \in ReadSizes, VfsRead(h, n) PROVE VfsInv'
    BY <1>4, ReadKeeps DEF VfsRead
  <1>5. ASSUME NEW h \in Handles, NEW d \in Writes, VfsWrite(h, d) PROVE VfsInv'
    <2>1. PICK m \in VfsWriteResults(h, Len(d)) :
            IF m > 0 THEN nodes' = Written(h, SubSeq(d, 1, m)) /\ fds' = Advanced(h, m)
                     ELSE UNCHANGED <<nodes, fds>>
      BY <1>5 DEF VfsWrite
    <2>2. copy' = NoCopy BY <1>5 DEF VfsWrite
    <2>3. CASE m > 0
      <3>1. HasOps(h) /\ d \in Seq(Byte) /\ m \in 0 .. Len(d)
        BY <2>1, <2>3, VfsAssumption DEF VfsWriteResults
      <3> QED BY Zenon, <2>1, <2>2, <2>3, <3>1, Prefix, WriteKeeps
    <2>4. CASE ~(m > 0)
      <3>1. nodes' = nodes /\ fds' = fds BY <2>1, <2>4
      <3> QED BY Zenon, <2>2, <3>1 DEF VfsTypeOK, NoHoles, HasOps, Size
    <2> QED BY <2>3, <2>4
  <1>6. ASSUME NEW src \in Handles, NEW dst \in Handles, StartCopy(src, dst) PROVE VfsInv'
    <2>1. \A h \in {src, dst} : nodes[fds[h].node] \in Node
      BY <1>6 DEF StartCopy, VfsTypeOK
    <2>2. copy' \in CopyState BY <1>6, <2>1 DEF StartCopy, CopyState, Node
    <2> QED BY <1>6, <2>2 DEF StartCopy, VfsTypeOK, NoHoles, HasOps, Size
  <1>7. ASSUME CopyRead PROVE VfsInv'
    <2>1. copy \in CopyState BY Z3T(60), <1>7 DEF CopyRead, VfsTypeOK, NoCopy
    <2>2. PICK n \in VfsReadResults(copy.src, COPY_BUF) :
            /\ fds' = Advanced(copy.src, n)
            /\ copy' = IF MoreToCopy(n)
                       THEN [copy EXCEPT !.pc = "write",
                                !.buf = SubSeq(nodes[fds[copy.src].node].data,
                                               fds[copy.src].off + 1, fds[copy.src].off + n)]
                       ELSE [copy EXCEPT !.pc = "done", !.faulty = fds[copy.src].off < Size(copy.src)]
      BY Zenon, <1>7 DEF CopyRead
    <2>3. copy.src \in Handles /\ nodes' = nodes BY <1>7, <2>1 DEF CopyRead, CopyState
    <2>4. copy' \in CopyState
      <3>1. CASE n > 0
        <4>1. HasOps(copy.src) /\ n \in Nat /\ fds[copy.src].off + n <= Size(copy.src)
          BY <2>2, <2>3, <3>1, ReadWithin
        <4>2. nodes[fds[copy.src].node].data \in Seq(Byte) BY <2>3, <4>1, Opened DEF Node
        <4>3. fds[copy.src].off \in Nat BY <2>3 DEF VfsTypeOK
        <4>4. SubSeq(nodes[fds[copy.src].node].data, fds[copy.src].off + 1, fds[copy.src].off + n) \in Seq(Byte)
          <5> DEFINE s == nodes[fds[copy.src].node].data  a == fds[copy.src].off  b == a + n
          <5>1. s \in Seq(Byte) /\ a \in Nat /\ b \in Nat /\ b <= Len(s) BY <4>1, <4>2, <4>3 DEF Size
          <5> HIDE DEF s, a, b
          <5>2. SubSeq(s, a + 1, b) \in Seq(Byte) BY <5>1, Slice
          <5> QED BY <5>2 DEF s, a, b
        <4> QED BY Zenon, <2>1, <2>2, <3>1, <4>4 DEF CopyState, MoreToCopy
      <3>2. CASE ~(n > 0)
        <4> DEFINE f == fds[copy.src].off < Size(copy.src)
        <4>1. f \in BOOLEAN OBVIOUS
        <4>2. copy' = [copy EXCEPT !.pc = "done", !.faulty = f] BY <2>2, <3>2 DEF MoreToCopy
        <4> HIDE DEF f
        <4> QED BY Zenon, <2>1, <4>1, <4>2 DEF CopyState
      <3> QED BY Z3T(60), <3>1, <3>2
    <2> QED BY <2>2, <2>3, <2>4, ReadKeeps
  <1>8. ASSUME CopyWrite PROVE VfsInv'
    <2>1. copy \in CopyState BY <1>8 DEF CopyWrite, VfsTypeOK, NoCopy
    <2>2. PICK m \in VfsWriteResults(copy.dst, Len(copy.buf)) :
            /\ IF m > 0 THEN nodes' = Written(copy.dst, SubSeq(copy.buf, 1, m)) /\ fds' = Advanced(copy.dst, m)
                        ELSE UNCHANGED <<nodes, fds>>
            /\ copy' = IF AllTaken(m, Len(copy.buf))
                       THEN [copy EXCEPT !.pc = "read", !.total = @ + Len(copy.buf)]
                       ELSE [copy EXCEPT !.pc = "failed"]
      BY <1>8 DEF CopyWrite
    <2>3. copy.dst \in Handles /\ copy.buf \in Seq(Byte) BY <2>1 DEF CopyState
    <2>4. copy' \in CopyState
      <3>1. copy.total + Len(copy.buf) \in Nat BY <2>1, <2>3 DEF CopyState
      <3>2. [copy EXCEPT !.pc = "read", !.total = @ + Len(copy.buf)] \in CopyState
        BY Zenon, <2>1, <3>1 DEF CopyState
      <3>3. [copy EXCEPT !.pc = "failed"] \in CopyState BY Zenon, <2>1 DEF CopyState
      <3> QED BY <2>2, <3>2, <3>3
    <2>5. CASE m > 0
      <3>1. HasOps(copy.dst) /\ m \in 0 .. Len(copy.buf) BY <2>2, <2>3, <2>5 DEF VfsWriteResults
      <3> QED BY Zenon, <2>2, <2>3, <2>4, <2>5, <3>1, Prefix, WriteKeeps
    <2>6. CASE ~(m > 0) BY <2>2, <2>4, <2>6 DEF VfsTypeOK, NoHoles, HasOps, Size
    <2> QED BY <2>5, <2>6
  <1>9. CASE UNCHANGED vfs_vars BY <1>9 DEF VfsTypeOK, NoHoles, HasOps, Size, vfs_vars
  <1> QED BY <1>1, <1>2, <1>3, <1>4, <1>5, <1>6, <1>7, <1>8, <1>9 DEF VfsNext, CopyFileStep

\* No handle is ever beyond the end of its file, for any number of files, handles
\* and bytes, as long as vfs_read's sum does not wrap.
THEOREM HolesNever == VfsSpec /\ []SumsFit => []NoHoles
  <1>1. VfsInit => VfsInv BY VfsInitInv
  <1>2. VfsInv /\ SumsFit /\ [VfsNext]_vfs_vars => VfsInv' BY VfsStep
  <1>3. VfsInv => NoHoles BY DEF VfsInv
  <1> QED BY <1>1, <1>2, <1>3, PTL DEF VfsSpec

-----------------------------------------------------------------------------
(* copy_file.                                                              *)

LEMMA OverlayNone ==
  ASSUME NEW d \in Seq(Byte), NEW s \in Seq(Byte)
  PROVE  Overlay(d, s, 0) = d
  <1>1. Len(d) \in Nat /\ d = [i \in 1 .. Len(d) |-> d[i]] OBVIOUS
  <1>2. Max2(Len(d), 0) = Len(d) BY <1>1 DEF Max2
  <1>3. \A i \in 1 .. Len(d) : ~(i <= 0) BY <1>1
  <1> QED BY Zenon, <1>1, <1>2, <1>3 DEF Overlay

\* Writing a file over itself changes nothing.
LEMMA OverlaySelf ==
  ASSUME NEW s \in Seq(Byte), NEW t \in 0 .. Len(s)
  PROVE  Overlay(s, s, t) = s
  <1>1. Len(s) \in Nat /\ s = [i \in 1 .. Len(s) |-> s[i]] OBVIOUS
  <1>2. Max2(Len(s), t) = Len(s) BY <1>1 DEF Max2
  <1> QED BY Zenon, <1>1, <1>2 DEF Overlay

\* What bytes written behind the first t make of a file.
Behind(old, t, bytes) ==
    [i \in 1 .. Max2(Len(old), t + Len(bytes)) |-> IF i - t \in DOMAIN bytes THEN bytes[i - t] ELSE old[i]]

Continues(d, s, t, bytes) == Behind(Overlay(d, s, t), t, bytes) = Overlay(d, s, t + Len(bytes))

\* The next bytes written behind the ones that were.
LEMMA OverlayMore ==
  ASSUME NEW d \in Seq(Byte), NEW s \in Seq(Byte), NEW t \in Nat, NEW bytes \in Seq(Byte),
         t + Len(bytes) <= Len(s), \A k \in 1 .. Len(bytes) : bytes[k] = s[t + k]
  PROVE  Continues(d, s, t, bytes)
  <1> DEFINE m == Len(bytes)
             n == Len(d)
             o == Overlay(d, s, t)
  <1>1. m \in Nat /\ n \in Nat /\ DOMAIN bytes = 1 .. m OBVIOUS
  <1>2. o = [i \in 1 .. Max2(n, t) |-> IF i <= t THEN s[i] ELSE d[i]] BY Zenon DEF Overlay
  <1>3. Max2(n, t) \in Nat BY <1>1 DEF Max2
  <1>4. Len(o) = Max2(n, t)
    <2> HIDE DEF o, n
    <2> QED BY <1>2, <1>3
  <1> HIDE DEF m, n, o
  <1>5. Max2(Len(o), t + m) = Max2(n, t + m) BY <1>1, <1>4 DEF Max2
  <1>6. ASSUME NEW i \in 1 .. Max2(n, t + m)
        PROVE  (IF i - t \in DOMAIN bytes THEN bytes[i - t] ELSE o[i]) = (IF i <= t + m THEN s[i] ELSE d[i])
    <2>0. i \in Nat /\ i >= 1 BY <1>1 DEF Max2
    <2>1. CASE i <= t
      <3>1. i - t \notin 1 .. m /\ i <= t + m BY <1>1, <2>0, <2>1
      <3>2. i \in 1 .. Max2(n, t) BY <1>1, <2>0, <2>1 DEF Max2
      <3> QED BY Zenon, <1>1, <1>2, <2>1, <3>1, <3>2
    <2>2. CASE i > t /\ i <= t + m
      <3>1. i - t \in 1 .. m /\ t + (i - t) = i BY <1>1, <2>0, <2>2
      <3>2. bytes[i - t] = s[t + (i - t)] BY Zenon, <3>1 DEF m
      <3> QED BY Zenon, <1>1, <2>2, <3>1, <3>2
    <2>3. CASE i > t + m
      <3>1. i - t \notin 1 .. m /\ ~(i <= t) /\ ~(i <= t + m) /\ i \in 1 .. Max2(n, t)
        BY <1>1, <2>0, <2>3 DEF Max2
      <3> QED BY Zenon, <1>1, <1>2, <3>1
    <2> QED BY <1>1, <2>0, <2>1, <2>2, <2>3
  <1>7. Overlay(d, s, t + m) = [i \in 1 .. Max2(n, t + m) |-> IF i <= t + m THEN s[i] ELSE d[i]]
    BY Zenon DEF Overlay, n
  <1>8. [i \in 1 .. Max2(Len(o), t + m) |-> IF i - t \in DOMAIN bytes THEN bytes[i - t] ELSE o[i]]
        = Overlay(d, s, t + m)
    BY Zenon, <1>5, <1>6, <1>7
  <1> QED BY Zenon, <1>8 DEF m, o, Behind, Continues

\* What a write through h makes of the files.
LEMMA WrittenData ==
  ASSUME VfsTypeOK, NEW h \in Handles, HasOps(h), NEW bytes
  PROVE  Written(h, bytes)[fds[h].node].data = Behind(nodes[fds[h].node].data, fds[h].off, bytes)
  <1> DEFINE k == fds[h].node
             new == Behind(nodes[k].data, fds[h].off, bytes)
  <1>1. k \in 1 .. Len(nodes) /\ nodes[k] \in Node BY Zenon, Opened
  <1>2. nodes \in Seq(Node) /\ DOMAIN nodes = 1 .. Len(nodes) BY DEF VfsTypeOK
  <1>3. Written(h, bytes) = [nodes EXCEPT ![k] = [nodes[k] EXCEPT !.data = new]]
    BY Zenon, <1>1, <1>2 DEF Written, Behind
  <1> HIDE DEF new, k
  <1>4. [nodes[k] EXCEPT !.data = new].data = new BY <1>1 DEF Node
  <1>5. Written(h, bytes)[k].data = new BY Zenon, <1>1, <1>2, <1>3, <1>4
  <1> QED BY Zenon, <1>5 DEF k, new

LEMMA WrittenOthers ==
  ASSUME VfsTypeOK, NEW h \in Handles, NEW bytes, NEW k \in 1 .. Len(nodes), k # fds[h].node
  PROVE  Written(h, bytes)[k] = nodes[k]
  <1>1. DOMAIN nodes = 1 .. Len(nodes) BY DEF VfsTypeOK
  <1> QED BY Zenon, <1>1 DEF Written

\* t bytes have been copied; S and D are what the two files hold.
Halfway(c, t, S, D) == t \in 0 .. Len(c.was.s) /\ S = c.was.s /\ D = Overlay(c.was.d, c.was.s, t)

\* copy_file before a read, before a write, and when it has returned.
Reading(c, f, S, D) == Halfway(c, c.total, S, D) /\ f[c.src].off = c.total /\ f[c.dst].off = c.total

Writing(c, f, S, D) ==
    /\ Halfway(c, c.total, S, D) /\ f[c.dst].off = c.total
    /\ Len(c.buf) > 0 /\ f[c.src].off = c.total + Len(c.buf) /\ c.total + Len(c.buf) <= Len(c.was.s)
    /\ \A k \in 1 .. Len(c.buf) : c.buf[k] = c.was.s[c.total + k]

Succeeded(c, D) == D = Overlay(c.was.d, c.was.s, c.total) /\ (~c.faulty => c.total = Len(c.was.s))

Failed(c, D) == \E j \in 0 .. Len(c.was.s) : D = Overlay(c.was.d, c.was.s, j)

Copying(c, ns, f) ==
    LET S == ns[f[c.src].node].data
        D == ns[f[c.dst].node].data
    IN  /\ c.src # c.dst
        /\ f[c.src].node \in 1 .. Len(ns) /\ f[c.dst].node \in 1 .. Len(ns)
        /\ f[c.src].node = f[c.dst].node => c.was.s = c.was.d
        /\ c.pc = "read" => Reading(c, f, S, D)
        /\ c.pc = "write" => Writing(c, f, S, D)
        /\ c.pc = "done" => Succeeded(c, D)
        /\ c.pc = "failed" => Failed(c, D)

CopyInv == copy = NoCopy \/ (copy \in CopyState /\ Copying(copy, nodes, fds))

LEMMA CopyInitInv == VfsInit => CopyInv
  BY Zenon DEF VfsInit, CopyInv

LEMMA CopyInvImplies == CopyInv => CopyIsOverlay
  <1> SUFFICES ASSUME CopyInv PROVE CopyIsOverlay OBVIOUS
  <1>1. CASE copy = NoCopy BY <1>1 DEF NoCopy, CopyIsOverlay
  <1>2. CASE copy # NoCopy BY Zenon, <1>2 DEF CopyInv, Copying, Succeeded, Failed, CopyIsOverlay
  <1> QED BY Zenon, <1>1, <1>2

LEMMA StartCopies ==
  ASSUME VfsInv, NEW src \in Handles, NEW dst \in Handles, StartCopy(src, dst)
  PROVE  CopyInv'
  <1> DEFINE S == nodes[fds[src].node].data
             D == nodes[fds[dst].node].data
             c == [pc |-> "read", src |-> src, dst |-> dst, buf |-> <<>>, total |-> 0, faulty |-> FALSE,
                   was |-> [s |-> S, d |-> D]]
  <1>1. copy' = c /\ nodes' = nodes /\ fds' = fds /\ src # dst BY Zenon DEF StartCopy
  <1>2. ASSUME NEW h \in {src, dst} PROVE fds[h].node \in 1 .. Len(nodes) /\ fds[h].off = 0
    <2>1. fds[h].node # 0 /\ fds[h].off = 0 BY Zenon DEF StartCopy
    <2>2. h \in Handles BY Zenon
    <2> QED BY <2>1, <2>2 DEF VfsInv, VfsTypeOK
  <1>3. S \in Seq(Byte) /\ D \in Seq(Byte)
    <2>1. \A k \in 1 .. Len(nodes) : nodes[k] \in Node BY DEF VfsInv, VfsTypeOK
    <2>2. \A k \in 1 .. Len(nodes) : nodes[k].data \in Seq(Byte) BY <2>1 DEF Node
    <2> QED BY Zenon, <1>2, <2>2
  <1> HIDE DEF S, D
  <1>4. c \in CopyState BY <1>3 DEF CopyState
  <1>5. /\ c.pc = "read" /\ c.src = src /\ c.dst = dst /\ c.total = 0 /\ c.was.s = S /\ c.was.d = D
    OBVIOUS
  <1>6. 0 \in 0 .. Len(S) BY <1>3
  <1> HIDE DEF c
  <1>7. Reading(c, fds, S, D)
    <2>1. D = Overlay(D, S, 0) BY Zenon, <1>3, OverlayNone
    <2> QED BY Zenon, <1>2, <1>5, <1>6, <2>1 DEF Reading, Halfway
  <1>8. c.pc # "write" /\ c.pc # "done" /\ c.pc # "failed" BY <1>5
  <1>9. Copying(c, nodes, fds)
    <2>1. fds[src].node = fds[dst].node => S = D BY Zenon DEF S, D
    <2> QED BY Zenon, <1>1, <1>2, <1>5, <1>7, <1>8, <2>1 DEF Copying, S, D
  <1> QED BY Zenon, <1>1, <1>4, <1>9 DEF CopyInv

LEMMA CopyReads ==
  ASSUME VfsInv, SumsFit, CopyInv, CopyRead
  PROVE  CopyInv'
  <1> DEFINE src == copy.src
             dst == copy.dst
             t == copy.total
             s == copy.was.s
             S == nodes[fds[src].node].data
             D == nodes[fds[dst].node].data
  <1>1. copy.pc = "read" /\ nodes' = nodes BY Zenon DEF CopyRead
  <1>2. copy # NoCopy BY <1>1 DEF NoCopy
  <1>3. copy \in CopyState /\ Copying(copy, nodes, fds) BY Zenon, <1>2 DEF CopyInv
  <1>4. /\ src \in Handles /\ dst \in Handles /\ src # dst /\ t \in Nat /\ s \in Seq(Byte)
        /\ copy.was.d \in Seq(Byte)
    <2>1. src # dst BY Zenon, <1>3 DEF Copying
    <2> QED BY <1>3, <2>1 DEF CopyState
  <1>5. t \in 0 .. Len(s) /\ S = s /\ D = Overlay(copy.was.d, s, t) /\ fds[src].off = t /\ fds[dst].off = t
    BY Zenon, <1>1, <1>3 DEF Copying, Reading, Halfway
  <1>6. PICK n \in VfsReadResults(src, COPY_BUF) :
          /\ fds' = Advanced(src, n)
          /\ copy' = IF n > 0
                     THEN [copy EXCEPT !.pc = "write", !.buf = SubSeq(S, fds[src].off + 1, fds[src].off + n)]
                     ELSE [copy EXCEPT !.pc = "done", !.faulty = fds[src].off < Size(src)]
    BY Zenon DEF CopyRead, MoreToCopy
  <1>7. n \in Int BY <1>4, VfsAssumption, Opened DEF VfsReadResults, Clamped, VfsInv, VfsTypeOK
  <1>8. /\ \A g \in Handles : fds'[g].node = fds[g].node
        /\ fds'[dst].off = t
        /\ fds'[src].off = IF n > 0 THEN t + n ELSE t
    <2>1. Moves(Advanced(src, n), src, n) BY Zenon, <1>4, <1>5, <1>6, <1>7, AdvanceMoves DEF VfsInv
    <2> QED BY Zenon, <1>4, <1>5, <1>6, <1>7, <2>1 DEF Moves
  <1>9. Size(src) = Len(s) BY Zenon, <1>5 DEF Size
  <1>10. fds[src].node = fds[dst].node => s = copy.was.d BY Zenon, <1>3 DEF Copying
  <1>11. fds[src].node \in 1 .. Len(nodes) /\ fds[dst].node \in 1 .. Len(nodes) BY Zenon, <1>3 DEF Copying
  <1> HIDE DEF S, D
  <1>12. CASE n > 0
    <2> DEFINE b == SubSeq(s, t + 1, t + n)
               c == [copy EXCEPT !.pc = "write", !.buf = b]
    <2>1. n \in Nat /\ t + n <= Len(s)
      BY Zenon, <1>4, <1>5, <1>6, <1>9, <1>12, ReadWithin DEF VfsInv
    <2>2. b \in Seq(Byte) /\ Len(b) = n /\ \A k \in 1 .. n : b[k] = s[t + k]
      <3> HIDE DEF s, t
      <3> QED BY <1>4, <1>12, <2>1
    <2>3. copy' = c BY Zenon, <1>5, <1>6, <1>12
    <2> HIDE DEF b
    <2>4. /\ c \in CopyState
          /\ c.pc = "write" /\ c.src = src /\ c.dst = dst /\ c.total = t /\ c.buf = b /\ c.was = copy.was
      BY Zenon, <1>3, <2>2 DEF CopyState
    <2> HIDE DEF c
    <2>5. Writing(c, fds', S, D) BY Zenon, <1>5, <1>8, <1>12, <2>1, <2>2, <2>4 DEF Writing, Halfway
    <2>6. c.pc # "read" /\ c.pc # "done" /\ c.pc # "failed" BY <2>4
    <2>7. Copying(c, nodes, fds') BY Zenon, <1>4, <1>8, <1>10, <1>11, <2>4, <2>5, <2>6 DEF Copying, S, D
    <2> QED BY Zenon, <1>1, <2>3, <2>4, <2>7 DEF CopyInv
  <1>13. CASE ~(n > 0)
    <2> DEFINE f == t < Len(s)
               c == [copy EXCEPT !.pc = "done", !.faulty = f]
    <2>1. copy' = c BY Zenon, <1>5, <1>6, <1>9, <1>13
    <2>2. f \in BOOLEAN /\ (~f => t = Len(s))
      <3> HIDE DEF s, t
      <3> QED BY <1>4, <1>5
    <2> HIDE DEF f
    <2>3. /\ c \in CopyState
          /\ c.pc = "done" /\ c.src = src /\ c.dst = dst /\ c.total = t /\ c.faulty = f /\ c.was = copy.was
      BY Zenon, <1>3, <2>2 DEF CopyState
    <2> HIDE DEF c
    <2>4. Succeeded(c, D) BY Zenon, <1>5, <2>2, <2>3 DEF Succeeded
    <2>5. c.pc # "read" /\ c.pc # "write" /\ c.pc # "failed" BY <2>3
    <2>6. Copying(c, nodes, fds') BY Zenon, <1>4, <1>8, <1>10, <1>11, <2>3, <2>4, <2>5 DEF Copying, S, D
    <2> QED BY Zenon, <1>1, <2>1, <2>3, <2>6 DEF CopyInv
  <1> QED BY Zenon, <1>12, <1>13

\* The files after m bytes of the buffer were written.
LEMMA WriteGoesOn ==
  ASSUME VfsInv, copy \in CopyState, Copying(copy, nodes, fds), copy.pc = "write", HasOps(copy.dst),
         NEW m \in 1 .. Len(copy.buf)
  PROVE  LET ns == Written(copy.dst, SubSeq(copy.buf, 1, m))
         IN  Halfway(copy, copy.total + m, ns[fds[copy.src].node].data, ns[fds[copy.dst].node].data)
  <1> DEFINE src == copy.src
             dst == copy.dst
             t == copy.total
             s == copy.was.s
             d == copy.was.d
             bytes == SubSeq(copy.buf, 1, m)
             ns == Written(dst, bytes)
             D == nodes[fds[dst].node].data
  <1>1. src \in Handles /\ dst \in Handles /\ t \in Nat /\ s \in Seq(Byte) /\ d \in Seq(Byte) /\ copy.buf \in Seq(Byte)
    BY DEF CopyState
  <1>2. /\ D = Overlay(d, s, t) /\ fds[dst].off = t /\ nodes[fds[src].node].data = s
        /\ t + Len(copy.buf) <= Len(s) /\ \A k \in 1 .. Len(copy.buf) : copy.buf[k] = s[t + k]
    BY Zenon DEF Copying, Writing, Halfway
  <1>3. /\ bytes \in Seq(Byte) /\ Len(bytes) = m /\ \A k \in 1 .. m : bytes[k] = copy.buf[k] /\ k \in 1 .. Len(copy.buf)
        /\ m \in Nat
    <2> DEFINE buf == copy.buf
    <2>1. buf \in Seq(Byte) /\ m \in 1 .. Len(buf) BY Zenon, <1>1
    <2> HIDE DEF buf
    <2>2. SubSeq(buf, 1, m) \in Seq(Byte) /\ Len(SubSeq(buf, 1, m)) = m /\ m \in Nat BY <2>1
    <2>3. \A k \in 1 .. m : SubSeq(buf, 1, m)[k] = buf[k] /\ k \in 1 .. Len(buf) BY <2>1
    <2> QED BY Zenon, <2>2, <2>3 DEF buf
  <1>4. t + m <= Len(s) /\ t + m \in 0 .. Len(s)
    <2> DEFINE l == Len(copy.buf)
               e == Len(s)
    <2>1. l \in Nat /\ e \in Nat /\ m \in 1 .. l /\ t + l <= e /\ t \in Nat BY <1>1, <1>2
    <2> HIDE DEF l, e, t
    <2>2. t + m <= e /\ t + m \in 0 .. e BY <2>1
    <2> QED BY Zenon, <2>2 DEF e
  <1>5. ns[fds[dst].node].data = Overlay(d, s, t + m)
    <2>1. ns[fds[dst].node].data = Behind(D, fds[dst].off, bytes)
      <3> HIDE DEF bytes
      <3> QED BY Zenon, <1>1, WrittenData DEF VfsInv
    <2> HIDE DEF ns, D, bytes, s, d, t
    <2>2. ns[fds[dst].node].data = Behind(Overlay(d, s, t), t, bytes) BY Zenon, <1>2, <2>1
    <2>3. \A k \in 1 .. Len(bytes) : bytes[k] = s[t + k] BY Zenon, <1>2, <1>3
    <2>4. t + Len(bytes) <= Len(s) BY Zenon, <1>3, <1>4
    <2>5. Continues(d, s, t, bytes) BY ZenonT(60), <1>1, <1>3, <2>3, <2>4, OverlayMore
    <2> QED BY Zenon, <1>3, <2>2, <2>5 DEF Continues
  <1>6. ns[fds[src].node].data = s
    <2>1. CASE fds[src].node = fds[dst].node
      <3>1. d = s BY Zenon, <2>1 DEF Copying
      <3> HIDE DEF ns, s, d
      <3> QED BY Zenon, <1>1, <1>4, <1>5, <2>1, <3>1, OverlaySelf
    <2>2. CASE fds[src].node # fds[dst].node
      <3>1. fds[src].node \in 1 .. Len(nodes) BY Zenon DEF Copying
      <3> HIDE DEF bytes
      <3>2. ns[fds[src].node] = nodes[fds[src].node] BY Zenon, <1>1, <2>2, <3>1, WrittenOthers DEF VfsInv
      <3> QED BY Zenon, <1>2, <3>2
    <2> QED BY Zenon, <2>1, <2>2
  <1> QED BY Zenon, <1>4, <1>5, <1>6 DEF Halfway

LEMMA CopyWrites ==
  ASSUME VfsInv, CopyInv, CopyWrite
  PROVE  CopyInv'
  <1> DEFINE src == copy.src
             dst == copy.dst
             t == copy.total
             l == Len(copy.buf)
  <1>1. copy.pc = "write" BY Zenon DEF CopyWrite
  <1>2. copy # NoCopy BY <1>1 DEF NoCopy
  <1>3. copy \in CopyState /\ Copying(copy, nodes, fds) BY Zenon, <1>2 DEF CopyInv
  <1>4. src \in Handles /\ dst \in Handles /\ src # dst /\ t \in Nat /\ copy.buf \in Seq(Byte) /\ l \in Nat
    <2>1. src # dst BY Zenon, <1>3 DEF Copying
    <2>2. src \in Handles /\ dst \in Handles /\ t \in Nat /\ copy.buf \in Seq(Byte) BY <1>3 DEF CopyState
    <2> QED BY <2>1, <2>2
  <1>5. PICK m \in VfsWriteResults(dst, l) :
          /\ IF m > 0 THEN nodes' = Written(dst, SubSeq(copy.buf, 1, m)) /\ fds' = Advanced(dst, m)
                      ELSE UNCHANGED <<nodes, fds>>
          /\ copy' = IF m = l THEN [copy EXCEPT !.pc = "read", !.total = @ + l]
                              ELSE [copy EXCEPT !.pc = "failed"]
    BY Zenon DEF CopyWrite, AllTaken
  <1>6. l > 0 /\ fds[src].off = t + l /\ fds[dst].off = t BY Zenon, <1>1, <1>3 DEF Copying, Writing
  <1>7. fds[src].node = fds[dst].node => copy.was.s = copy.was.d BY Zenon, <1>3 DEF Copying
  <1>8. fds[src].node \in 1 .. Len(nodes) /\ fds[dst].node \in 1 .. Len(nodes) BY Zenon, <1>3 DEF Copying
  <1> HIDE DEF l
  <1>9. /\ [copy EXCEPT !.pc = "failed"] \in CopyState
        /\ LET c == [copy EXCEPT !.pc = "failed"]
           IN  c.pc = "failed" /\ c.src = src /\ c.dst = dst /\ c.was = copy.was
    BY Zenon, <1>3 DEF CopyState
  <1>10. CASE m > 0
    <2> DEFINE ns == Written(dst, SubSeq(copy.buf, 1, m))
               S == ns[fds[src].node].data
               D == ns[fds[dst].node].data
    <2>1. HasOps(dst) /\ m \in 1 .. l /\ m \in Int BY <1>4, <1>5, <1>10 DEF VfsWriteResults
    <2>2. Halfway(copy, t + m, S, D) BY Zenon, <1>1, <1>3, <2>1, WriteGoesOn DEF l
    <2>3. Len(ns) = Len(nodes)
      <3>1. SubSeq(copy.buf, 1, m) \in Seq(Byte) BY <1>4, <2>1 DEF l
      <3> QED BY Zenon, <1>4, <2>1, <3>1, WriteGrows DEF VfsInv
    <2>4. nodes' = ns /\ fds' = Advanced(dst, m) BY Zenon, <1>5, <1>10
    <2>5. (\A g \in Handles : fds'[g].node = fds[g].node) /\ fds'[src].off = t + l /\ fds'[dst].off = t + m
      <3>1. Moves(Advanced(dst, m), dst, m) BY Zenon, <1>4, <2>1, AdvanceMoves DEF VfsInv
      <3> QED BY Zenon, <1>4, <1>6, <1>10, <2>4, <3>1 DEF Moves
    <2> HIDE DEF ns
    <2>6. CASE m = l
      <3> DEFINE c == [copy EXCEPT !.pc = "read", !.total = @ + l]
      <3>1. copy' = c BY Zenon, <1>5, <2>6
      <3>2. /\ c \in CopyState /\ c.pc = "read" /\ c.src = src /\ c.dst = dst /\ c.total = t + l /\ c.was = copy.was
        <4>1. t + l \in Nat BY <1>4
        <4> QED BY Zenon, <1>3, <4>1 DEF CopyState
      <3> HIDE DEF c
      <3>3. Reading(c, fds', S, D) BY Zenon, <2>2, <2>5, <2>6, <3>2 DEF Reading, Halfway
      <3>4. c.pc # "write" /\ c.pc # "done" /\ c.pc # "failed" BY <3>2
      <3>5. Copying(c, ns, fds') BY Zenon, <1>4, <1>7, <1>8, <2>3, <2>5, <3>2, <3>3, <3>4 DEF Copying
      <3> QED BY Zenon, <2>4, <3>1, <3>2, <3>5 DEF CopyInv
    <2>7. CASE m # l
      <3> DEFINE c == [copy EXCEPT !.pc = "failed"]
      <3>1. copy' = c BY Zenon, <1>5, <2>7
      <3>2. c \in CopyState /\ c.pc = "failed" /\ c.src = src /\ c.dst = dst /\ c.was = copy.was BY Zenon, <1>9
      <3> HIDE DEF c
      <3>3. Failed(c, D) BY Zenon, <2>2, <3>2 DEF Failed, Halfway
      <3>4. c.pc # "read" /\ c.pc # "write" /\ c.pc # "done" BY <3>2
      <3>5. Copying(c, ns, fds') BY Zenon, <1>4, <1>7, <1>8, <2>3, <2>5, <3>2, <3>3, <3>4 DEF Copying
      <3> QED BY Zenon, <2>4, <3>1, <3>2, <3>5 DEF CopyInv
    <2> QED BY Zenon, <2>6, <2>7
  <1>11. CASE ~(m > 0)
    <2> DEFINE c == [copy EXCEPT !.pc = "failed"]
               D == nodes[fds[dst].node].data
    <2>1. m # l BY <1>6, <1>11
    <2>2. copy' = c /\ nodes' = nodes /\ fds' = fds BY Zenon, <1>5, <1>11, <2>1
    <2>3. c \in CopyState /\ c.pc = "failed" /\ c.src = src /\ c.dst = dst /\ c.was = copy.was BY Zenon, <1>9
    <2> HIDE DEF c
    <2>4. Failed(c, D) BY Zenon, <1>1, <1>3, <2>3 DEF Failed, Copying, Writing, Halfway
    <2>5. c.pc # "read" /\ c.pc # "write" /\ c.pc # "done" BY <2>3
    <2>6. Copying(c, nodes, fds) BY Zenon, <1>4, <1>7, <1>8, <2>3, <2>4, <2>5 DEF Copying
    <2> QED BY Zenon, <2>2, <2>3, <2>6 DEF CopyInv
  <1> QED BY Zenon, <1>10, <1>11

LEMMA CopyStep == VfsInv /\ SumsFit /\ CopyInv /\ [VfsNext]_vfs_vars => CopyInv'
  <1> SUFFICES ASSUME VfsInv, SumsFit, CopyInv, [VfsNext]_vfs_vars PROVE CopyInv' OBVIOUS
  <1>1. ASSUME copy' = NoCopy PROVE CopyInv' BY Zenon, <1>1 DEF CopyInv
  <1>2. CASE UNCHANGED vfs_vars BY Zenon, <1>2 DEF vfs_vars, CopyInv
  <1> QED
    BY Zenon, <1>1, <1>2, StartCopies, CopyReads, CopyWrites
    DEF VfsNext, CopyFileStep, RegisterFile, VfsMkdir, VfsOpen, VfsRead, VfsWrite

\* For files of any length, any buffer and drivers that transfer as little as
\* they like, copy_file (pkg.c:70-82) makes of its destination what Overlay says,
\* also when both handles are of one file, and stops short only when a read did.
THEOREM CopiesOverlay == VfsSpec /\ []SumsFit => []CopyIsOverlay
  <1>1. VfsInit => VfsInv /\ CopyInv BY VfsInitInv, CopyInitInv
  <1>2. VfsInv /\ CopyInv /\ SumsFit /\ [VfsNext]_vfs_vars => VfsInv' /\ CopyInv' BY VfsStep, CopyStep
  <1> QED BY <1>1, <1>2, CopyInvImplies, PTL DEF VfsSpec

-----------------------------------------------------------------------------

\* The names of the table are never changed, only added to.
NamesKept ==
  /\ nodes \in Seq(Node) /\ nodes' \in Seq(Node)
  /\ Len(nodes) <= Len(nodes')
  /\ \A i \in 1 .. Len(nodes) : nodes'[i].name = nodes[i].name

LEMMA StepKeepsNames == VfsInv /\ VfsInv' /\ [VfsNext]_vfs_vars => NamesKept
  <1> SUFFICES ASSUME VfsInv, VfsInv', [VfsNext]_vfs_vars PROVE NamesKept
    OBVIOUS
  <1>0. nodes \in Seq(Node) /\ nodes' \in Seq(Node) BY DEF VfsInv, VfsTypeOK
  <1>1. ASSUME NEW node, VfsRegisterNode(node) PROVE NamesKept
    BY <1>0, <1>1 DEF VfsRegisterNode, NamesKept
  <1>2. ASSUME NEW h \in Handles, HasOps(h), NEW bytes \in Seq(Byte), nodes' = Written(h, bytes)
        PROVE  NamesKept
    BY <1>0, <1>2, WriteGrows DEF NamesKept, VfsInv
  <1>3. ASSUME nodes' = nodes PROVE NamesKept BY <1>0, <1>3 DEF NamesKept
  <1>4. ASSUME NEW h \in Handles, NEW d \in Writes, VfsWrite(h, d) PROVE NamesKept
    <2>1. PICK m \in VfsWriteResults(h, Len(d)) :
            IF m > 0 THEN nodes' = Written(h, SubSeq(d, 1, m)) ELSE nodes' = nodes
      BY <1>4 DEF VfsWrite
    <2>2. CASE m > 0
      <3>1. HasOps(h) /\ d \in Seq(Byte) /\ m \in 0 .. Len(d)
        BY <2>1, <2>2, VfsAssumption DEF VfsWriteResults
      <3> QED BY Zenon, <2>1, <2>2, <3>1, <1>2, Prefix
    <2> QED BY <2>1, <2>2, <1>3
  <1>5. ASSUME CopyWrite PROVE NamesKept
    <2>1. copy \in CopyState BY <1>5 DEF CopyWrite, VfsInv, VfsTypeOK, NoCopy
    <2>2. PICK m \in VfsWriteResults(copy.dst, Len(copy.buf)) :
            IF m > 0 THEN nodes' = Written(copy.dst, SubSeq(copy.buf, 1, m)) ELSE nodes' = nodes
      BY <1>5 DEF CopyWrite
    <2>3. CASE m > 0
      <3>1. copy.dst \in Handles /\ copy.buf \in Seq(Byte) BY <2>1 DEF CopyState
      <3>2. HasOps(copy.dst) /\ m \in 0 .. Len(copy.buf) BY <2>2, <2>3, <3>1 DEF VfsWriteResults
      <3> QED BY Zenon, <2>2, <2>3, <3>1, <3>2, <1>2, Prefix
    <2> QED BY <2>2, <2>3, <1>3
  <1> QED
    BY Zenon, <1>1, <1>3, <1>4, <1>5
    DEF VfsNext, RegisterFile, VfsMkdir, VfsOpen, VfsRead, StartCopy, CopyFileStep, CopyRead, vfs_vars

\* What is found among the first names is found again when names are added.
LEMMA LookupKept ==
  ASSUME NamesKept, NEW p \in Paths, VfsLookup(nodes, p) # {}
  PROVE  VfsLookup(nodes', p) = VfsLookup(nodes, p)
  <1>1. DOMAIN nodes = 1 .. Len(nodes) /\ DOMAIN nodes' = 1 .. Len(nodes')
        /\ Len(nodes) \in Nat /\ Len(nodes') \in Nat
    BY DEF NamesKept
  <1>2. PICK i \in DOMAIN nodes : nodes[i].name = p /\ \A j \in 1 .. i - 1 : nodes[j].name # p
    BY DEF VfsLookup
  <1>3. VfsLookup(nodes, p) = {i} BY <1>1, <1>2 DEF VfsLookup
  <1>4. \A j \in 1 .. i : j \in 1 .. Len(nodes) /\ nodes'[j].name = nodes[j].name
    BY <1>1, <1>2 DEF NamesKept
  <1>5. i \in DOMAIN nodes' /\ nodes'[i].name = p /\ \A j \in 1 .. i - 1 : nodes'[j].name # p
    BY Z3T(60), <1>1, <1>2, <1>4 DEF NamesKept
  <1>6. VfsLookup(nodes', p) = {i} BY <1>1, <1>5 DEF VfsLookup
  <1> QED BY <1>3, <1>6

\* A path that resolves keeps resolving to the same node, for any table.
THEOREM ResolvesForever == VfsSpec /\ []SumsFit => ResolvesToSame
  <1>1. VfsInit => VfsInv BY VfsInitInv
  <1>2. VfsInv /\ SumsFit /\ [VfsNext]_vfs_vars => VfsInv' BY VfsStep
  <1>3. VfsInv /\ VfsInv' /\ [VfsNext]_vfs_vars =>
          [\A p \in Paths : VfsLookup(nodes, p) # {} => VfsLookup(nodes', p) = VfsLookup(nodes, p)]_vfs_vars
    BY StepKeepsNames, LookupKept
  <1> QED BY <1>1, <1>2, <1>3, PTL DEF VfsSpec, ResolvesToSame

-----------------------------------------------------------------------------
(* The environment.                                                        *)

\* The inductive invariant: every string ends before pool_used, so that writing
\* behind it leaves them alone.
EnvInv == EnvTypeOK /\ EnvIsExports

LEMMA EnvInitInv == EnvInit => EnvInv
  <1>1. ASSUME EnvInit PROVE EnvTypeOK
    BY <1>1, EnvAssumption DEF EnvInit, EnvTypeOK
  <1>2. ASSUME EnvInit PROVE EnvIsExports
    BY <1>2, EnvAssumption DEF EnvInit, EnvIsExports
  <1> QED BY <1>1, <1>2 DEF EnvInv

\* A string that is accepted: it stands behind the others and ends in the pool.
LEMMA EnvSetInv ==
  ASSUME EnvInv, NEW entry \in Seq(Chars), EnvSet(entry)
  PROVE  EnvInv'
  <1>1. CASE ~EnvFits(entry)
    <2>1. UNCHANGED env_vars BY <1>1 DEF EnvSet
    <2> QED BY <2>1 DEF EnvInv, EnvTypeOK, EnvIsExports, HoldsAt, env_vars
  <1>2. CASE EnvFits(entry)
    <2> DEFINE n == Len(entry)
    <2>1. /\ n \in Nat
          /\ pool_used \in Nat /\ pool_used + n + 1 <= ENV_POOL_SZ
          /\ Len(slots) < MAX_ENV - 1
      BY <1>2, EnvAssumption DEF EnvFits, EnvInv, EnvTypeOK
    <2>2. /\ pool' = [i \in DOMAIN pool |->
                        IF i - pool_used \in 1 .. n THEN entry[i - pool_used]
                        ELSE IF i = pool_used + n + 1 THEN NUL ELSE pool[i]]
          /\ slots' = Append(slots, pool_used)
          /\ pool_used' = pool_used + n + 1
          /\ exported' = Append(exported, entry)
      BY <1>2 DEF EnvSet, EnvEnd
    <2>3. DOMAIN pool = 1 .. ENV_POOL_SZ BY DEF EnvInv, EnvTypeOK
    <2>4. EnvTypeOK'
      <3>1. pool' \in [1 .. ENV_POOL_SZ -> Chars \cup {NUL}]
        BY Z3T(60), <2>1, <2>2, <2>3 DEF EnvInv, EnvTypeOK
      <3>2. pool_used' \in 0 .. ENV_POOL_SZ BY <2>1, <2>2, EnvAssumption
      <3>3. slots' \in Seq(0 .. ENV_POOL_SZ) BY <2>2 DEF EnvInv, EnvTypeOK
      <3>4. exported' \in Seq(Seq(Chars)) BY <2>2 DEF EnvInv, EnvTypeOK
      <3> QED BY <3>1, <3>2, <3>3, <3>4 DEF EnvTypeOK
    <2>5. Len(slots') = Len(exported') /\ Len(slots') < MAX_ENV /\ pool_used' <= ENV_POOL_SZ
      BY <2>1, <2>2, EnvAssumption DEF EnvInv, EnvTypeOK, EnvIsExports
    <2>6. ASSUME NEW i \in 1 .. Len(slots') PROVE HoldsAt(pool', pool_used', slots'[i], exported'[i])
      <3>1. CASE i = Len(slots) + 1
        <4>1. slots'[i] = pool_used /\ exported'[i] = entry
          BY Z3T(60), <3>1, <2>2 DEF EnvInv, EnvTypeOK, EnvIsExports
        <4>2. ASSUME NEW k \in 1 .. n PROVE pool'[pool_used + k] = entry[k]
          <5>1. pool_used + k \in DOMAIN pool /\ (pool_used + k) - pool_used = k
            <6> HIDE DEF n
            <6>1. pool_used + k \in 1 .. ENV_POOL_SZ /\ (pool_used + k) - pool_used = k
              BY <2>1, EnvAssumption
            <6> QED BY <6>1, <2>3
          <5> QED BY <5>1, <2>2
        <4>3. pool'[pool_used + n + 1] = NUL
          BY <2>1, <2>2, <2>3
        <4> QED BY <4>1, <4>2, <4>3, <2>1, <2>2 DEF HoldsAt
      <3>2. CASE i \in 1 .. Len(slots)
        <4> DEFINE at == slots[i]  e == exported[i]
        <4>1. slots'[i] = at /\ exported'[i] = e
          BY <3>2, <2>2 DEF EnvInv, EnvTypeOK, EnvIsExports
        <4>2. /\ HoldsAt(pool, pool_used, at, e)
              /\ at \in 0 .. ENV_POOL_SZ
              /\ e \in Seq(Chars)
          <5>1. HoldsAt(pool, pool_used, at, e) BY ZenonT(60), <3>2 DEF EnvInv, EnvIsExports
          <5>2. at \in 0 .. ENV_POOL_SZ
            <6>1. slots \in Seq(0 .. ENV_POOL_SZ) BY DEF EnvInv, EnvTypeOK
            <6> QED BY ZenonT(60), <6>1, <3>2, SeqElement
          <5>3. i \in 1 .. Len(exported) /\ exported \in Seq(Seq(Chars))
            BY <3>2 DEF EnvInv, EnvTypeOK, EnvIsExports
          <5>4. e \in Seq(Chars) BY <5>3
          <5> QED BY <5>1, <5>2, <5>4
        <4>3. Len(e) \in Nat /\ at \in Nat /\ at + Len(e) + 1 <= pool_used
          BY <4>2, EnvAssumption DEF HoldsAt
        <4>4. \A j \in 1 .. pool_used : pool'[j] = pool[j]
          BY Z3T(60), <2>1, <2>2, <2>3, EnvAssumption
        <4>5. /\ \A k \in 1 .. Len(e) : pool'[at + k] = e[k]
              /\ pool'[at + Len(e) + 1] = NUL
          <5> HIDE DEF at, e
          <5>1. /\ \A k \in 1 .. Len(e) : pool[at + k] = e[k] /\ at + k \in 1 .. pool_used
                /\ pool[at + Len(e) + 1] = NUL /\ at + Len(e) + 1 \in 1 .. pool_used
            BY <4>2, <4>3, <2>1 DEF HoldsAt
          <5> QED BY <5>1, <4>4
        <4>6. at + Len(e) + 1 <= pool_used' BY Z3T(60), <4>3, <2>1, <2>2
        <4> HIDE DEF at, e
        <4> QED BY <4>1, <4>5, <4>6 DEF HoldsAt
      <3>3. i \in 1 .. Len(slots) + 1 BY <2>2 DEF EnvInv, EnvTypeOK
      <3> QED BY <3>1, <3>2, <3>3 DEF EnvInv, EnvTypeOK
    <2> QED BY <2>4, <2>5, <2>6 DEF EnvInv, EnvIsExports
  <1> QED BY <1>1, <1>2

\* env_print_all shows exactly the entries that were accepted, whatever their
\* lengths and however small the pool and the table.
THEOREM EnvKept == EnvSpec => []EnvIsExports
  <1>1. EnvInit => EnvInv BY EnvInitInv
  <1>2. EnvInv /\ [\E entry \in Seq(Chars) : EnvSet(entry)]_env_vars => EnvInv'
    <2>1. ASSUME EnvInv, UNCHANGED env_vars PROVE EnvInv'
      BY <2>1 DEF EnvInv, EnvTypeOK, EnvIsExports, HoldsAt, env_vars
    <2> QED BY <2>1, EnvSetInv
  <1>3. EnvInv => EnvIsExports BY DEF EnvInv
  <1> QED BY <1>1, <1>2, <1>3, PTL DEF EnvSpec
=============================================================================
