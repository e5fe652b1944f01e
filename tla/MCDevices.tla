----------------------------- MODULE MCDevices -----------------------------
(* The drivers that talk to a device by polling or by port writes, one of  *)
(* them at a time: the others are never started.                           *)
EXTENDS Ne2000, E1000, Pic, Serial

VARIABLE device
dvars == <<ne, e1, pic_vars, sr, device>>

MCLenOf == [short |-> 1, longer |-> 2, jumbo |-> 3]
\* Strings with each escape, with one cut short, and with none.
MCTexts == {<<>>, <<"a", "/", "n">>, <<"/", "/", "f", "n">>, <<"/">>}
MCCauses == {<<"init died">>}
MCBootMasks == {<<0, 0>>, <<2, 255>>}

\* The state a device that is not used was found in makes no difference.
Init ==
    /\ NeInit /\ E1Init /\ PicInit /\ SrInit
    /\ device \in {"ne2000", "e1000", "pic", "uart"}
    /\ device # "ne2000" => ne.rcr = "normal"
    /\ device # "e1000" => ~e1.up
    /\ device # "pic" => asked = <<0, 0>>

NeStep(A) == device = "ne2000" /\ A /\ UNCHANGED <<e1, pic_vars, sr, device>>
E1Step(A) == device = "e1000" /\ A /\ UNCHANGED <<ne, pic_vars, sr, device>>
PicStep(A) == device = "pic" /\ A /\ UNCHANGED <<ne, e1, sr, device>>
SrStep(A) == device = "uart" /\ A /\ UNCHANGED <<ne, e1, pic_vars, device>>

Next == NeStep(NeNext) \/ E1Step(E1Next) \/ PicStep(PicNext) \/ SrStep(SrNext)
Spec == Init /\ [][Next]_dvars

\* A driver that has been called keeps executing and a handler ends; the
\* processor takes the interrupts it is offered, but they leave the kernel
\* some time (SF); the UART sends what it holds; other devices owe nothing.
FairSpec ==
    /\ Spec
    /\ WF_dvars(NeStep(Driver))
    /\ WF_dvars(E1Step(NetInitStep))
    /\ WF_dvars(SrStep(Printer))
    /\ WF_dvars(SrStep(UartSends))
    /\ WF_dvars(PicStep(Take))
    /\ WF_dvars(PicStep(HandlerEnds))
    /\ SF_dvars(PicStep(WriteMask))

-----------------------------------------------------------------------------
(* Properties of several drivers.                                          *)

\* Neither card receives before its driver has set it up, whatever state the
\* firmware left it in (ne2000.c:60-75, e1000.c:26-28).
CardsQuiet == QuietUntilUp /\ RxAfterSetup

\* The two controllers do what the kernel asked of them: masks, vectors, and no
\* line left in service once its handler has ended (pic.c).
PicInOrder == MasksAsAsked /\ VectorsClear /\ ServiceEnds

\* What is printed arrives, before and in a panic, and never in the divisor
\* (serial.h, panic.c).
SerialFaithful == PrintsWhatIsAsked /\ ReportIsWhole /\ DivisorKept

\* Every polling loop ends: the probe, net_init, and the report of a panic.
DriversEnd == ProbeEnds /\ NetInitEnds /\ PanicHalts
=============================================================================
