-------------------------------- MODULE Pic --------------------------------
(***************************************************************************)
(* kernel/pic.c and the two 8259 controllers it programs.                  *)
(*                                                                         *)
(* A controller (external) is a record: mask, the byte of the lines it     *)
(* ignores; serving, the lines whose handler has not ended; base, the      *)
(* vector of its line 0; icw, the initialisation word its data port        *)
(* expects next, 0 when the data port is the mask.  The second controller  *)
(* is wired to line CASCADE of the first.  Interrupts stay off, as the     *)
(* boot loader left them, until pic_remap has returned.                    *)
(***************************************************************************)
EXTENDS Integers, Sequences

CONSTANTS
    Lines,      \* the IRQs of the machine, out of 0 .. 15 without the cascade
    BootMasks   \* the pairs of masks the firmware may leave

CASCADE == 2

ASSUME PicAssumption ==
    /\ Lines \subseteq 0 .. 15 /\ CASCADE \notin Lines
    /\ BootMasks \subseteq [1 .. 2 -> 0 .. 255]

VARIABLES
    pic,      \* the two controllers
    remap,    \* accesses of pic_remap made so far
    saved,    \* mask1 and mask2 of pic_remap
    access,   \* pic_set_mask or pic_clear_mask between its two accesses
    iflag,    \* interrupts are enabled
    raised,   \* IRQs the devices ask for
    cpu,      \* the IRQ whose handler runs, or Idle
    asked     \* the masks the kernel means to have

pic_vars == <<pic, remap, saved, access, iflag, raised, cpu, asked>>

Idle == -1
Chip(irq) == IF irq < 8 THEN 1 ELSE 2
Bit(irq) == IF irq < 8 THEN irq ELSE irq - 8
HasBit(byte, b) == (byte \div 2^b) % 2 = 1
OrBit(byte, b) == IF HasBit(byte, b) THEN byte ELSE byte + 2^b
AndNotBit(byte, b) == IF HasBit(byte, b) THEN byte - 2^b ELSE byte

-----------------------------------------------------------------------------
(* The controllers.                                                        *)

\* Command port: 0x11 starts the initialisation and clears the mask, 0x20 ends
\* the most urgent service.
OutCmd(p, byte) ==
    IF byte = 17
    THEN [p EXCEPT !.icw = 2, !.mask = 0, !.serving = {}]
    ELSE [p EXCEPT !.serving = {b \in @ : \E c \in @ : c < b}]

\* Data port: ICW2 (the base), ICW3, ICW4, and the mask afterwards.
OutData(p, byte) ==
    CASE p.icw = 2 -> [p EXCEPT !.base = byte, !.icw = 3]
      [] p.icw = 3 -> [p EXCEPT !.icw = 4]
      [] p.icw = 4 -> [p EXCEPT !.icw = 0]
      [] OTHER     -> [p EXCEPT !.mask = byte]

\* The lines a controller would pass on, given the ones that ask.
Passes(p, asking) ==
    {b \in asking : p.icw = 0 /\ ~HasBit(p.mask, b) /\ \A s \in p.serving : b < s}
Pending(chip) == {Bit(irq) : irq \in {i \in raised : Chip(i) = chip}}
Urgent(S) == {b \in S : \A c \in S : b <= c}
FromSlave == Urgent(Passes(pic[2], Pending(2)))
FromMaster == Urgent(Passes(pic[1], Pending(1) \cup (IF FromSlave = {} THEN {} ELSE {CASCADE})))

\* The processor takes an interrupt and enters its handler, with interrupts
\* off until the iret.
Take ==
    /\ iflag
    /\ cpu = Idle
    /\ \E b \in FromMaster :
          /\ cpu' = IF b = CASCADE THEN 8 + (CHOOSE s \in FromSlave : TRUE) ELSE b
          /\ pic' = [pic EXCEPT ![1].serving = @ \cup {b},
                                ![2].serving = IF b = CASCADE THEN @ \cup FromSlave ELSE @]
    /\ raised' = raised \ {cpu'}
    /\ UNCHANGED <<remap, saved, access, iflag, asked>>

Raise(irq) ==
    /\ irq \notin raised
    /\ raised' = raised \cup {irq}
    /\ UNCHANGED <<pic, remap, saved, access, iflag, cpu, asked>>

-----------------------------------------------------------------------------
(* pic.c.                                                                  *)

\* Mutant: ICW4 is left out.
RemapWrites_NoIcw4 ==
    << <<1, "cmd", 17>>, <<2, "cmd", 17>>, <<1, "data", 32>>, <<2, "data", 40>>,
       <<1, "data", 4>>, <<2, "data", 2>>, <<1, "data", saved[1]>>, <<2, "data", saved[2]>> >>

RemapWrites ==
    << <<1, "cmd", 17>>, <<2, "cmd", 17>>,
       <<1, "data", 32>>, <<2, "data", 40>>,
       <<1, "data", 4>>, <<2, "data", 2>>,
       <<1, "data", 1>>, <<2, "data", 1>>,
       <<1, "data", saved[1]>>, <<2, "data", saved[2]>> >>

Remapped == remap = Len(RemapWrites) + 1

\* pic_remap, access by access: both masks are read, then come the writes.
PicRemap ==
    /\ ~Remapped
    /\ remap' = remap + 1
    /\ IF remap = 0
       THEN saved' = [i \in 1 .. 2 |-> pic[i].mask] /\ UNCHANGED pic
       ELSE LET w == RemapWrites[remap]
            IN  /\ pic' = [pic EXCEPT ![w[1]] = IF w[2] = "cmd" THEN OutCmd(@, w[3]) ELSE OutData(@, w[3])]
                /\ UNCHANGED saved
    /\ UNCHANGED <<access, iflag, raised, cpu, asked>>

\* The kernel turns interrupts on.
Sti ==
    /\ Remapped
    /\ ~iflag
    /\ iflag' = TRUE
    /\ UNCHANGED <<pic, remap, saved, access, raised, cpu, asked>>

\* Mutant: an IRQ of the first controller is not acknowledged.
Eoi_SecondOnly(irq) == [pic EXCEPT ![2] = IF irq >= 8 THEN OutCmd(@, 32) ELSE @]

\* pic_send_eoi: both controllers for an IRQ of the second.
Eoi(irq) ==
    [pic EXCEPT ![1] = OutCmd(@, 32), ![2] = IF irq >= 8 THEN OutCmd(@, 32) ELSE @]

\* The end of a handler, such as irq1_handler's.
PicSendEoi(irq) ==
    /\ cpu = irq
    /\ cpu' = Idle
    /\ pic' = Eoi(irq)
    /\ UNCHANGED <<remap, saved, access, iflag, raised, asked>>

NoAccess == [chip |-> 0, value |-> 0]

\* pic_set_mask and pic_clear_mask read the port, change one bit, and write.
ReadMask(irq, on) ==
    /\ Remapped
    /\ cpu = Idle
    /\ access = NoAccess
    /\ LET chip == Chip(irq)
           new(byte) == IF on THEN OrBit(byte, Bit(irq)) ELSE AndNotBit(byte, Bit(irq))
       IN  /\ access' = [chip |-> chip, value |-> new(pic[chip].mask)]
           /\ asked' = [asked EXCEPT ![chip] = new(@)]
    /\ UNCHANGED <<pic, remap, saved, iflag, raised, cpu>>

WriteMask ==
    /\ cpu = Idle
    /\ access # NoAccess
    /\ pic' = [pic EXCEPT ![access.chip] = OutData(@, access.value)]
    /\ access' = NoAccess
    /\ UNCHANGED <<remap, saved, iflag, raised, cpu, asked>>

PicInit ==
    /\ asked \in BootMasks
    /\ pic = [i \in 1 .. 2 |-> [mask |-> asked[i], serving |-> {}, base |-> IF i = 1 THEN 8 ELSE 112,
                                icw |-> 0]]
    /\ remap = 0
    /\ saved = [i \in 1 .. 2 |-> 0]
    /\ access = NoAccess
    /\ iflag = FALSE
    /\ raised = {}
    /\ cpu = Idle

HandlerEnds == \E irq \in Lines : PicSendEoi(irq)

PicNext ==
    \/ PicRemap \/ Sti \/ WriteMask \/ HandlerEnds \/ Take
    \/ \E irq \in Lines : Raise(irq) \/ ReadMask(irq, TRUE) \/ ReadMask(irq, FALSE)

-----------------------------------------------------------------------------
(* Properties.                                                             *)

\* Outside the calls of pic.c the controllers ignore exactly the lines the
\* kernel means them to: pic_remap, which clears both masks on its way, puts
\* the firmware's back, and a mask call changes its bit and no other, although
\* an interrupt may come between its read and its write.
MasksAsAsked ==
    (remap = 0 \/ Remapped) /\ access = NoAccess => \A i \in 1 .. 2 : pic[i].mask = asked[i]

\* No interrupt is taken for a processor exception (pic.c:1): a handler is
\* entered through vector 32 + irq.
VectorsClear == cpu # Idle => pic[Chip(cpu)].base + Bit(cpu) = 32 + cpu

\* Once a handler has ended, neither controller waits for the end of anything,
\* so no line stays blocked.
ServiceEnds == cpu = Idle => \A i \in 1 .. 2 : pic[i].serving = {}

\* The most urgent line is served when it asks, unless the kernel closes it,
\* whatever was in service at the time and however often the others ask.
UrgentServed ==
    \A irq \in Lines : (\A other \in Lines : irq <= other) =>
        (iflag /\ irq \in raised ~> irq \notin raised \/ HasBit(asked[Chip(irq)], Bit(irq)))
=============================================================================
