------------------------------- MODULE Ne2000 -------------------------------
(***************************************************************************)
(* net/ne2000.c.  The driver polls the card; the card (external) finishes  *)
(* a reset or a remote DMA when it likes, or never, and takes frames from  *)
(* the network whenever its registers let it.  The fields of `ne':         *)
(*   pc       "off", "reset", "answered", "stopped", "started", "absent",  *)
(*            "up", "copy" or "kick"                                       *)
(*   timeout  the counter of the polling loops                             *)
(*   isr      the bits of NE_ISR the driver looks at: "RST", "RDC"         *)
(*   rcr      the receive mode                                             *)
(*   ring     PSTART, PSTOP and BNRY are set                               *)
(*   frame    the argument of ne2000_send                                  *)
(*   dma, tx  the frame on its way to the transmit buffer, and in it       *)
(*   buffered the card has put a frame into the receive ring               *)
(*   reads    reads of NE_ISR in the current loop                          *)
(*   when     how many of them came before the bit was set, Never if all   *)
(***************************************************************************)
EXTENDS Integers

CONSTANTS
    POLLS,    \* 10000, the iterations of both polling loops
    TX_MAX,   \* NE_PAGE_SIZE * 6, the size of the transmit buffer
    LenOf     \* frame -> its length

ASSUME Ne2000Assumption == POLLS \in Nat \ {0} /\ TX_MAX \in Nat

VARIABLE ne

NoFrame == "none"
Never == -1

\* The card's modes are what ran before left behind.
NeInit ==
    ne \in [pc : {"off"}, timeout : {0}, isr : {{}}, rcr : {"monitor", "normal"}, ring : {FALSE},
            frame : {NoFrame}, dma : {NoFrame}, tx : {NoFrame}, buffered : {FALSE},
            reads : {0}, when : {Never}]

\* Mutant: the read that finds the bit counts, too.
Poll_AlwaysCount(bit, from, to) ==
    /\ ne.pc = from
    /\ ne' = [ne EXCEPT !.reads = @ + 1,
                        !.timeout = @ - 1,
                        !.pc = IF bit \in ne.isr \/ ne.timeout = 0 THEN to ELSE from]

\* One iteration of while (!(ne_in(NE_ISR) & bit) && timeout--): the read that
\* sees the bit leaves the counter alone, and the read that finds the counter
\* at 0 leaves it at -1.
Poll(bit, from, to) ==
    /\ ne.pc = from
    /\ ne' = [ne EXCEPT !.reads = @ + 1,
                        !.timeout = IF bit \in ne.isr THEN @ ELSE @ - 1,
                        !.pc = IF bit \in ne.isr \/ ne.timeout = 0 THEN to ELSE from]

-----------------------------------------------------------------------------
(* ne2000_probe.                                                           *)

ProbeReset ==
    /\ ne.pc = "off"
    /\ ne' = [ne EXCEPT !.pc = "reset", !.timeout = POLLS, !.reads = 0, !.when = Never]

PollReset == Poll("RST", "reset", "answered")

ProbeGiveUp ==
    /\ ne.pc = "answered"
    /\ ne.timeout <= 0
    /\ ne' = [ne EXCEPT !.pc = "absent"]

\* Stopped, in monitor mode, with the ring set up and all interrupts masked.
ProbeConfigure ==
    /\ ne.pc = "answered"
    /\ ne.timeout > 0
    /\ ne' = [ne EXCEPT !.pc = "stopped", !.isr = {}, !.rcr = "monitor", !.ring = TRUE]

\* Mutant: the card starts in its receiving mode.
ProbeReadMac_Early ==
    /\ ne.pc = "stopped"
    /\ ne' = [ne EXCEPT !.pc = "started", !.rcr = "normal"]

\* Started, still in monitor mode: the PROM is read by remote DMA.
ProbeReadMac ==
    /\ ne.pc = "stopped"
    /\ ne' = [ne EXCEPT !.pc = "started"]

\* The real modes, and netdev_register.
ProbeGoLive ==
    /\ ne.pc = "started"
    /\ ne' = [ne EXCEPT !.pc = "up", !.rcr = "normal"]

-----------------------------------------------------------------------------
(* ne2000_send and ne2000_recv, once the device is registered.             *)

\* Mutant: the RDC of the frame before is not cleared.
SendCopy_KeepRdc(f) ==
    /\ ne.pc = "up"
    /\ LenOf[f] <= TX_MAX
    /\ ne' = [ne EXCEPT !.pc = "copy", !.timeout = POLLS, !.reads = 0, !.when = Never,
                        !.frame = f, !.dma = f]

\* A frame longer than the buffer is refused; any other is handed to the
\* remote DMA, whose earlier completion is cleared first.
SendCopy(f) ==
    /\ ne.pc = "up"
    /\ LenOf[f] <= TX_MAX
    /\ ne' = [ne EXCEPT !.pc = "copy", !.timeout = POLLS, !.reads = 0, !.when = Never,
                        !.frame = f, !.dma = f, !.isr = @ \ {"RDC"}]

PollRdc == Poll("RDC", "copy", "kick")

\* The card sends what its buffer holds.  Whether the loop ended with RDC or
\* ran out is not asked, and the result is 0 either way.
SendKick ==
    /\ ne.pc = "kick"
    /\ ne' = [ne EXCEPT !.pc = "up", !.isr = @ \ {"RDC"}]

\* ne2000_recv compares BNRY with CURR and delivers nothing: 0 or -1.
Recv == ne.pc = "up" /\ UNCHANGED ne

-----------------------------------------------------------------------------
(* The card.                                                               *)

CardReset ==
    /\ ne.pc = "reset"
    /\ "RST" \notin ne.isr
    /\ ne' = [ne EXCEPT !.isr = @ \cup {"RST"}, !.when = ne.reads]

CardDma ==
    /\ ne.dma # NoFrame
    /\ ne' = [ne EXCEPT !.isr = @ \cup {"RDC"}, !.when = ne.reads, !.tx = ne.dma, !.dma = NoFrame]

\* A frame arrives.  Monitor mode and a stopped card keep it out of the ring.
CardReceive ==
    /\ ne.pc \in {"started", "up", "copy", "kick"}
    /\ ne.rcr = "normal"
    /\ ne' = [ne EXCEPT !.buffered = TRUE]

Driver ==
    \/ ProbeReset \/ PollReset \/ ProbeGiveUp \/ ProbeConfigure \/ ProbeReadMac
    \/ ProbeGoLive \/ PollRdc \/ SendKick

NeNext ==
    \/ Driver \/ Recv \/ CardReset \/ CardDma \/ CardReceive
    \/ \E f \in DOMAIN LenOf : SendCopy(f)

-----------------------------------------------------------------------------
(* Properties.                                                             *)

\* The probe tells a card from an empty slot: a card whose reset ends before
\* the last of POLLS + 1 reads of NE_ISR is found, and only such a one.  The
\* read that finds the bit must leave the counter positive for this.
ProbeVerdict ==
    /\ ne.pc = "absent" => ne.when \notin 0 .. POLLS - 1
    /\ ne.pc = "stopped" => ne.when \in 0 .. POLLS - 1

\* The card puts nothing into its receive ring before the ring is set up, the
\* address has been read and the modes are final, whatever modes it was left in.
QuietUntilUp == ne.buffered => ne.ring /\ ne.pc \in {"up", "copy", "kick"}

\* Unless the polling loop ran out, the frame that is sent is the one
\* ne2000_send was called with: the end of an earlier copy, seen late, is not
\* taken for the end of this one.
SendsItsFrame == ne.pc = "kick" /\ ne.timeout >= 0 => ne.tx = ne.frame

\* ne2000_probe returns although there may be no card to answer.
ProbeEnds == ne.pc = "reset" ~> ne.pc \in {"absent", "up"}
=============================================================================
