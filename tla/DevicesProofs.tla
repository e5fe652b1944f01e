--------------------------- MODULE DevicesProofs ---------------------------
(***************************************************************************)
(* Proofs about the drivers, for any number of polls, any frames, any      *)
(* lines and any texts.  A step of the composition is a step of one driver *)
(* and leaves the others alone, so each keeps an invariant of its own.     *)
(***************************************************************************)
EXTENDS MCDevices, SequenceTheorems, WellFoundedInduction, TLAPS

\* A step of the composition, seen by each driver.
LEMMA EachDriverSteps ==
  [Next]_dvars => [NeNext]_ne /\ [E1Next]_e1 /\ [PicNext]_pic_vars /\ [SrNext]_sr
  <1>1. CASE NeStep(NeNext) BY Zenon, <1>1 DEF NeStep
  <1>2. CASE E1Step(E1Next) BY Zenon, <1>2 DEF E1Step
  <1>3. CASE PicStep(PicNext) BY Zenon, <1>3 DEF PicStep
  <1>4. CASE SrStep(SrNext) BY Zenon, <1>4 DEF SrStep
  <1>5. CASE UNCHANGED dvars BY Zenon, <1>5 DEF dvars
  <1> QED BY Zenon, <1>1, <1>2, <1>3, <1>4, <1>5 DEF Next

-----------------------------------------------------------------------------
(* The NE2000.                                                             *)

NePc == {"off", "reset", "answered", "stopped", "started", "absent", "up", "copy", "kick"}
NeTypes ==
  ne \in [pc : NePc, timeout : Int, isr : SUBSET {"RST", "RDC"}, rcr : {"monitor", "normal"},
          ring : BOOLEAN, frame : DOMAIN LenOf \cup {NoFrame}, dma : DOMAIN LenOf \cup {NoFrame},
          tx : DOMAIN LenOf \cup {NoFrame}, buffered : BOOLEAN, reads : Nat, when : Int]

\* While the probe waits, the counter and the reads add up; a bit that is set is
\* seen by the read that follows.
Waits ==
  /\ ne.pc = "off" => ne.isr = {}
  /\ ne.pc = "reset" => /\ ne.timeout = POLLS - ne.reads /\ ne.timeout >= 0
                        /\ ne.when = IF "RST" \in ne.isr THEN ne.reads ELSE Never
  /\ ne.pc = "answered" => (ne.timeout > 0 <=> ne.when \in 0 .. POLLS - 1)
  /\ ne.pc \notin {"up", "copy", "kick"} => ne.dma = NoFrame

\* The end of a copy that the driver waits for is the end of its own.
Copies ==
  /\ ne.pc \in {"copy", "kick"} => /\ ne.dma \in {NoFrame, ne.frame}
                                   /\ "RDC" \in ne.isr => ne.tx = ne.frame
  /\ ne.pc = "copy" => ne.timeout >= 0
  /\ ne.pc = "kick" /\ ne.timeout >= 0 => "RDC" \in ne.isr

\* The modes keep the receiver shut while the ring is not there.
Shut ==
  /\ ne.pc \in {"stopped", "started"} => ne.rcr = "monitor"
  /\ ne.pc \in {"stopped", "started", "up", "copy", "kick"} => ne.ring

NeInv == NeTypes /\ Waits /\ Copies /\ Shut /\ ProbeVerdict /\ QuietUntilUp

LEMMA NeInitInv == NeInit => NeInv
  <1> SUFFICES ASSUME NeInit PROVE NeInv OBVIOUS
  <1>1. ne.pc = "off" /\ ne.isr = {} /\ ne.dma = NoFrame /\ ne.buffered = FALSE BY Zenon DEF NeInit
  <1>2. "off" \in NePc /\ 0 \in Int /\ 0 \in Nat /\ Never \in Int /\ FALSE \in BOOLEAN
    BY DEF NePc, Never
  <1>3. NeTypes BY Zenon, <1>2 DEF NeInit, NeTypes
  <1>4. Waits /\ Copies /\ Shut /\ ProbeVerdict /\ QuietUntilUp
    BY <1>1 DEF Waits, Copies, Shut, ProbeVerdict, QuietUntilUp
  <1> QED BY Zenon, <1>3, <1>4 DEF NeInv

LEMMA NeNextInv == NeInv /\ [NeNext]_ne => NeInv'
  <1> SUFFICES ASSUME NeInv, [NeNext]_ne PROVE NeInv' OBVIOUS
  <1>a. NeTypes /\ Waits /\ Copies /\ Shut /\ ProbeVerdict /\ QuietUntilUp BY Zenon DEF NeInv
  <1>p. POLLS \in Nat \ {0} BY Ne2000Assumption
  <1>t. /\ ne.pc \in NePc /\ ne.timeout \in Int /\ ne.reads \in Nat /\ ne.when \in Int
        /\ ne.isr \in SUBSET {"RST", "RDC"} /\ ne.buffered \in BOOLEAN
    BY Zenon, <1>a DEF NeTypes
  <1>1. CASE ProbeReset
    <2>1. /\ ne.pc = "off" /\ ne'.pc = "reset" /\ ne'.timeout = POLLS /\ ne'.reads = 0
          /\ ne'.when = Never /\ ne'.isr = ne.isr /\ ne'.rcr = ne.rcr /\ ne'.ring = ne.ring
          /\ ne'.frame = ne.frame /\ ne'.dma = ne.dma /\ ne'.tx = ne.tx
          /\ ne'.buffered = ne.buffered
      BY <1>a, <1>1 DEF ProbeReset, NeTypes
    <2>2. NeTypes'
      <3>1. "reset" \in NePc /\ POLLS \in Int /\ 0 \in Nat /\ Never \in Int BY <1>p DEF NePc, Never
      <3> QED BY Zenon, <1>a, <1>1, <3>1 DEF ProbeReset, NeTypes
    <2>3. Waits' /\ ProbeVerdict' BY <1>a, <1>p, <1>t, <2>1 DEF Waits, ProbeVerdict, Never
    <2>4. Copies' BY <1>a, <1>p, <1>t, <2>1 DEF Copies, Waits
    <2>5. Shut' /\ QuietUntilUp' BY <1>a, <1>t, <2>1 DEF Shut, QuietUntilUp
    <2> QED BY Zenon, <2>2, <2>3, <2>4, <2>5 DEF NeInv
  <1>2. CASE PollReset
    <2>1. /\ ne.pc = "reset" /\ ne'.reads = ne.reads + 1
          /\ ne'.timeout = (IF "RST" \in ne.isr THEN ne.timeout ELSE ne.timeout - 1)
          /\ ne'.pc = (IF "RST" \in ne.isr \/ ne.timeout = 0 THEN "answered" ELSE "reset")
          /\ ne'.isr = ne.isr /\ ne'.rcr = ne.rcr /\ ne'.ring = ne.ring /\ ne'.frame = ne.frame
          /\ ne'.dma = ne.dma /\ ne'.tx = ne.tx /\ ne'.buffered = ne.buffered
          /\ ne'.when = ne.when
      BY <1>a, <1>2 DEF PollReset, Poll, NeTypes
    <2>2. NeTypes'
      <3>1. /\ ne.reads + 1 \in Nat /\ (IF "RST" \in ne.isr THEN ne.timeout ELSE ne.timeout - 1) \in Int
            /\ (IF "RST" \in ne.isr \/ ne.timeout = 0 THEN "answered" ELSE "reset") \in NePc
        BY <1>t DEF NePc
      <3> QED BY Zenon, <1>a, <1>2, <3>1 DEF PollReset, Poll, NeTypes
    <2>3. Waits' /\ ProbeVerdict' BY <1>a, <1>p, <1>t, <2>1 DEF Waits, ProbeVerdict, Never
    <2>4. Copies' BY <1>a, <1>p, <1>t, <2>1 DEF Copies, Waits
    <2>5. Shut' /\ QuietUntilUp' BY <1>a, <1>t, <2>1 DEF Shut, QuietUntilUp
    <2> QED BY Zenon, <2>2, <2>3, <2>4, <2>5 DEF NeInv
  <1>3. CASE ProbeGiveUp
    <2>1. /\ ne.pc = "answered" /\ ne.timeout <= 0 /\ ne'.pc = "absent"
          /\ ne'.timeout = ne.timeout /\ ne'.isr = ne.isr /\ ne'.rcr = ne.rcr
          /\ ne'.ring = ne.ring /\ ne'.frame = ne.frame /\ ne'.dma = ne.dma /\ ne'.tx = ne.tx
          /\ ne'.buffered = ne.buffered /\ ne'.reads = ne.reads /\ ne'.when = ne.when
      BY <1>a, <1>3 DEF ProbeGiveUp, NeTypes
    <2>2. NeTypes'
      <3>1. "absent" \in NePc BY DEF NePc
      <3> QED BY Zenon, <1>a, <1>3, <3>1 DEF ProbeGiveUp, NeTypes
    <2>3. Waits' /\ ProbeVerdict' BY <1>a, <1>p, <1>t, <2>1 DEF Waits, ProbeVerdict, Never
    <2>4. Copies' BY <1>a, <1>p, <1>t, <2>1 DEF Copies, Waits
    <2>5. Shut' /\ QuietUntilUp' BY <1>a, <1>t, <2>1 DEF Shut, QuietUntilUp
    <2> QED BY Zenon, <2>2, <2>3, <2>4, <2>5 DEF NeInv
  <1>4. CASE ProbeConfigure
    <2>1. /\ ne.pc = "answered" /\ ne.timeout > 0 /\ ne'.pc = "stopped" /\ ne'.isr = {}
          /\ ne'.rcr = "monitor" /\ ne'.ring = TRUE /\ ne'.timeout = ne.timeout
          /\ ne'.frame = ne.frame /\ ne'.dma = ne.dma /\ ne'.tx = ne.tx
          /\ ne'.buffered = ne.buffered /\ ne'.reads = ne.reads /\ ne'.when = ne.when
      BY <1>a, <1>4 DEF ProbeConfigure, NeTypes
    <2>2. NeTypes'
      <3>1. "stopped" \in NePc /\ {} \in SUBSET {"RST", "RDC"} BY DEF NePc
      <3> QED BY Zenon, <1>a, <1>4, <3>1 DEF ProbeConfigure, NeTypes
    <2>3. Waits' /\ ProbeVerdict' BY <1>a, <1>p, <1>t, <2>1 DEF Waits, ProbeVerdict, Never
    <2>4. Copies' BY <1>a, <1>p, <1>t, <2>1 DEF Copies, Waits
    <2>5. Shut' /\ QuietUntilUp' BY <1>a, <1>t, <2>1 DEF Shut, QuietUntilUp
    <2> QED BY Zenon, <2>2, <2>3, <2>4, <2>5 DEF NeInv
  <1>5. CASE ProbeReadMac
    <2>1. /\ ne.pc = "stopped" /\ ne'.pc = "started" /\ ne'.timeout = ne.timeout
          /\ ne'.isr = ne.isr /\ ne'.rcr = ne.rcr /\ ne'.ring = ne.ring /\ ne'.frame = ne.frame
          /\ ne'.dma = ne.dma /\ ne'.tx = ne.tx /\ ne'.buffered = ne.buffered
          /\ ne'.reads = ne.reads /\ ne'.when = ne.when
      BY <1>a, <1>5 DEF ProbeReadMac, NeTypes
    <2>2. NeTypes'
      <3>1. "started" \in NePc BY DEF NePc
      <3> QED BY Zenon, <1>a, <1>5, <3>1 DEF ProbeReadMac, NeTypes
    <2>3. Waits' /\ ProbeVerdict' BY <1>a, <1>p, <1>t, <2>1 DEF Waits, ProbeVerdict, Never
    <2>4. Copies' BY <1>a, <1>p, <1>t, <2>1 DEF Copies, Waits
    <2>5. Shut' /\ QuietUntilUp' BY <1>a, <1>t, <2>1 DEF Shut, QuietUntilUp
    <2> QED BY Zenon, <2>2, <2>3, <2>4, <2>5 DEF NeInv
  <1>6. CASE ProbeGoLive
    <2>1. /\ ne.pc = "started" /\ ne'.pc = "up" /\ ne'.rcr = "normal"
          /\ ne'.timeout = ne.timeout /\ ne'.isr = ne.isr /\ ne'.ring = ne.ring
          /\ ne'.frame = ne.frame /\ ne'.dma = ne.dma /\ ne'.tx = ne.tx
          /\ ne'.buffered = ne.buffered /\ ne'.reads = ne.reads /\ ne'.when = ne.when
      BY <1>a, <1>6 DEF ProbeGoLive, NeTypes
    <2>2. NeTypes'
      <3>1. "up" \in NePc BY DEF NePc
      <3> QED BY Zenon, <1>a, <1>6, <3>1 DEF ProbeGoLive, NeTypes
    <2>3. Waits' /\ ProbeVerdict' BY <1>a, <1>p, <1>t, <2>1 DEF Waits, ProbeVerdict, Never
    <2>4. Copies' BY <1>a, <1>p, <1>t, <2>1 DEF Copies, Waits
    <2>5. Shut' /\ QuietUntilUp' BY <1>a, <1>t, <2>1 DEF Shut, QuietUntilUp
    <2> QED BY Zenon, <2>2, <2>3, <2>4, <2>5 DEF NeInv
  <1>7. CASE PollRdc
    <2>1. /\ ne.pc = "copy" /\ ne'.reads = ne.reads + 1
          /\ ne'.timeout = (IF "RDC" \in ne.isr THEN ne.timeout ELSE ne.timeout - 1)
          /\ ne'.pc = (IF "RDC" \in ne.isr \/ ne.timeout = 0 THEN "kick" ELSE "copy")
          /\ ne'.isr = ne.isr /\ ne'.rcr = ne.rcr /\ ne'.ring = ne.ring /\ ne'.frame = ne.frame
          /\ ne'.dma = ne.dma /\ ne'.tx = ne.tx /\ ne'.buffered = ne.buffered
          /\ ne'.when = ne.when
      BY <1>a, <1>7 DEF PollRdc, Poll, NeTypes
    <2>2. NeTypes'
      <3>1. /\ ne.reads + 1 \in Nat /\ (IF "RDC" \in ne.isr THEN ne.timeout ELSE ne.timeout - 1) \in Int
            /\ (IF "RDC" \in ne.isr \/ ne.timeout = 0 THEN "kick" ELSE "copy") \in NePc
        BY <1>t DEF NePc
      <3> QED BY Zenon, <1>a, <1>7, <3>1 DEF PollRdc, Poll, NeTypes
    <2>3. Waits' /\ ProbeVerdict' BY <1>a, <1>p, <1>t, <2>1 DEF Waits, ProbeVerdict, Never
    <2>4. Copies' BY <1>a, <1>p, <1>t, <2>1 DEF Copies, Waits
    <2>5. Shut' /\ QuietUntilUp' BY <1>a, <1>t, <2>1 DEF Shut, QuietUntilUp
    <2> QED BY Zenon, <2>2, <2>3, <2>4, <2>5 DEF NeInv
  <1>8. CASE SendKick
    <2>1. /\ ne.pc = "kick" /\ ne'.pc = "up" /\ ne'.isr = ne.isr \ {"RDC"}
          /\ ne'.timeout = ne.timeout /\ ne'.rcr = ne.rcr /\ ne'.ring = ne.ring
          /\ ne'.frame = ne.frame /\ ne'.dma = ne.dma /\ ne'.tx = ne.tx
          /\ ne'.buffered = ne.buffered /\ ne'.reads = ne.reads /\ ne'.when = ne.when
      BY <1>a, <1>8 DEF SendKick, NeTypes
    <2>2. NeTypes'
      <3>1. "up" \in NePc /\ ne.isr \ {"RDC"} \in SUBSET {"RST", "RDC"} BY <1>t DEF NePc
      <3> QED BY Zenon, <1>a, <1>8, <3>1 DEF SendKick, NeTypes
    <2>3. Waits' /\ ProbeVerdict' BY <1>a, <1>p, <1>t, <2>1 DEF Waits, ProbeVerdict, Never
    <2>4. Copies' BY <1>a, <1>p, <1>t, <2>1 DEF Copies, Waits
    <2>5. Shut' /\ QuietUntilUp' BY <1>a, <1>t, <2>1 DEF Shut, QuietUntilUp
    <2> QED BY Zenon, <2>2, <2>3, <2>4, <2>5 DEF NeInv
  <1>9. ASSUME NEW f \in DOMAIN LenOf, SendCopy(f) PROVE NeInv'
    <2>1. /\ ne.pc = "up" /\ ne'.pc = "copy" /\ ne'.timeout = POLLS /\ ne'.reads = 0
          /\ ne'.when = Never /\ ne'.frame = f /\ ne'.dma = f /\ ne'.isr = ne.isr \ {"RDC"}
          /\ ne'.rcr = ne.rcr /\ ne'.ring = ne.ring /\ ne'.tx = ne.tx
          /\ ne'.buffered = ne.buffered
      BY <1>a, <1>9 DEF SendCopy, NeTypes
    <2>2. NeTypes'
      <3>1. /\ "copy" \in NePc /\ POLLS \in Int /\ 0 \in Nat /\ Never \in Int
            /\ f \in DOMAIN LenOf \cup {NoFrame} /\ ne.isr \ {"RDC"} \in SUBSET {"RST", "RDC"}
        BY <1>p, <1>t DEF NePc, Never
      <3> QED BY Zenon, <1>a, <1>9, <3>1 DEF SendCopy, NeTypes
    <2>3. Waits' /\ ProbeVerdict' BY <1>a, <1>p, <1>t, <2>1 DEF Waits, ProbeVerdict, Never
    <2>4. Copies' BY <1>a, <1>p, <1>t, <2>1 DEF Copies, Waits
    <2>5. Shut' /\ QuietUntilUp' BY <1>a, <1>t, <2>1 DEF Shut, QuietUntilUp
    <2> QED BY Zenon, <2>2, <2>3, <2>4, <2>5 DEF NeInv
  <1>10. CASE CardReset
    <2>1. /\ ne.pc = "reset" /\ "RST" \notin ne.isr /\ ne'.isr = ne.isr \cup {"RST"}
          /\ ne'.when = ne.reads /\ ne'.pc = ne.pc /\ ne'.timeout = ne.timeout
          /\ ne'.rcr = ne.rcr /\ ne'.ring = ne.ring /\ ne'.frame = ne.frame /\ ne'.dma = ne.dma
          /\ ne'.tx = ne.tx /\ ne'.buffered = ne.buffered /\ ne'.reads = ne.reads
      BY <1>a, <1>10 DEF CardReset, NeTypes
    <2>2. NeTypes'
      <3>1. ne.isr \cup {"RST"} \in SUBSET {"RST", "RDC"} /\ ne.reads \in Int BY <1>t
      <3> QED BY Zenon, <1>a, <1>10, <3>1 DEF CardReset, NeTypes
    <2>3. Waits' /\ ProbeVerdict' BY <1>a, <1>p, <1>t, <2>1 DEF Waits, ProbeVerdict, Never
    <2>4. Copies' BY <1>a, <1>p, <1>t, <2>1 DEF Copies, Waits
    <2>5. Shut' /\ QuietUntilUp' BY <1>a, <1>t, <2>1 DEF Shut, QuietUntilUp
    <2> QED BY Zenon, <2>2, <2>3, <2>4, <2>5 DEF NeInv
  <1>11. CASE CardDma
    <2>1. /\ ne.dma # NoFrame /\ ne'.isr = ne.isr \cup {"RDC"} /\ ne'.when = ne.reads
          /\ ne'.tx = ne.dma /\ ne'.dma = NoFrame /\ ne'.pc = ne.pc /\ ne'.timeout = ne.timeout
          /\ ne'.rcr = ne.rcr /\ ne'.ring = ne.ring /\ ne'.frame = ne.frame
          /\ ne'.buffered = ne.buffered /\ ne'.reads = ne.reads
      BY <1>a, <1>11 DEF CardDma, NeTypes
    <2>0. ne.pc \in {"up", "copy", "kick"} BY <1>a, <2>1 DEF Waits
    <2>2. NeTypes'
      <3>1. /\ ne.isr \cup {"RDC"} \in SUBSET {"RST", "RDC"} /\ ne.reads \in Int
            /\ ne.dma \in DOMAIN LenOf \cup {NoFrame} /\ NoFrame \in DOMAIN LenOf \cup {NoFrame}
        BY <1>t, <1>a DEF NeTypes
      <3> QED BY Zenon, <1>a, <1>11, <3>1 DEF CardDma, NeTypes
    <2>3. Waits' /\ ProbeVerdict' BY <1>a, <1>p, <1>t, <2>1, <2>0 DEF Waits, ProbeVerdict, Never
    <2>4. Copies' BY <1>a, <1>p, <1>t, <2>1 DEF Copies, Waits
    <2>5. Shut' /\ QuietUntilUp' BY <1>a, <1>t, <2>1 DEF Shut, QuietUntilUp
    <2> QED BY Zenon, <2>2, <2>3, <2>4, <2>5 DEF NeInv
  <1>12. CASE CardReceive
    <2>1. /\ ne.pc \in {"started", "up", "copy", "kick"} /\ ne.rcr = "normal"
          /\ ne'.buffered = TRUE /\ ne'.pc = ne.pc /\ ne'.timeout = ne.timeout
          /\ ne'.isr = ne.isr /\ ne'.rcr = ne.rcr /\ ne'.ring = ne.ring /\ ne'.frame = ne.frame
          /\ ne'.dma = ne.dma /\ ne'.tx = ne.tx /\ ne'.reads = ne.reads /\ ne'.when = ne.when
      BY <1>a, <1>12 DEF CardReceive, NeTypes
    <2>2. NeTypes'
      <3>1. TRUE \in BOOLEAN BY DEF NePc
      <3> QED BY Zenon, <1>a, <1>12, <3>1 DEF CardReceive, NeTypes
    <2>3. Waits' /\ ProbeVerdict' BY <1>a, <1>p, <1>t, <2>1 DEF Waits, ProbeVerdict, Never
    <2>4. Copies' BY <1>a, <1>p, <1>t, <2>1 DEF Copies, Waits
    <2>5. Shut' /\ QuietUntilUp' BY <1>a, <1>t, <2>1 DEF Shut, QuietUntilUp
    <2> QED BY Zenon, <2>2, <2>3, <2>4, <2>5 DEF NeInv
  <1>13. CASE Recv \/ UNCHANGED ne
    <2>1. ne' = ne BY Zenon, <1>13 DEF Recv
    <2> QED BY <1>a, <2>1 DEF NeInv, NeTypes, Waits, Copies, Shut, ProbeVerdict, QuietUntilUp
  <1> QED BY Zenon, <1>1, <1>2, <1>3, <1>4, <1>5, <1>6, <1>7, <1>8, <1>9, <1>10, <1>11, <1>12, <1>13
          DEF NeNext, Driver

LEMMA NeAlways == Spec => []NeInv
  <1>1. Init => NeInit BY Zenon DEF Init
  <1> QED BY <1>1, NeInitInv, NeNextInv, EachDriverSteps, PTL DEF Spec

\* ne2000_probe finds a card exactly when its reset ends in time, whatever the
\* number of polls (ne2000.c:47-58).
THEOREM ProbeIsRight == Spec => []ProbeVerdict
  <1>1. NeInv => ProbeVerdict BY Zenon DEF NeInv
  <1> QED BY <1>1, NeAlways, PTL

\* ne2000_send never sends the frame of an earlier call for its own, unless its
\* polling loop ran out (ne2000.c:100-126).
THEOREM SendsItsOwn == Spec => []SendsItsFrame
  <1>1. NeInv => SendsItsFrame
    <2> SUFFICES ASSUME NeInv, ne.pc = "kick", ne.timeout >= 0 PROVE ne.tx = ne.frame
      BY Zenon DEF SendsItsFrame
    <2> QED BY Zenon DEF NeInv, Copies
  <1> QED BY <1>1, NeAlways, PTL

-----------------------------------------------------------------------------
(* The E1000.                                                              *)

E1Pc == {"off", "absent", "reset", "write", "link", "ready"}
E1Types ==
  e1 \in [pc : E1Pc, next : 1 .. 8, timeout : Int, rst : BOOLEAN, slow : BOOLEAN,
          set : SUBSET {Groups[k] : k \in 1 .. 7}, up : BOOLEAN]

\* Unless the wait for it ran out, no reset is under way once net_init programs
\* the card, so that the groups written so far are all in place.
Programs ==
  /\ e1.pc \in {"off", "absent"} => ~e1.rst
  /\ e1.pc \in {"off", "absent", "reset"} => e1.set = {} /\ e1.next = 1 /\ ~e1.slow
  /\ e1.pc = "write" => e1.next <= 7
  /\ e1.pc \in {"link", "ready"} => e1.next = 8
  /\ e1.pc \in {"write", "link", "ready"} /\ ~e1.slow =>
       ~e1.rst /\ e1.set = {Groups[k] : k \in 1 .. e1.next - 1}

E1Inv == E1Types /\ Programs

LEMMA E1InitInv == E1Init => E1Inv
  <1> SUFFICES ASSUME E1Init PROVE E1Inv OBVIOUS
  <1>1. e1.pc = "off" /\ e1.set = {} /\ e1.next = 1 /\ e1.rst = FALSE /\ e1.slow = FALSE
    BY Zenon DEF E1Init
  <1>2. "off" \in E1Pc /\ 1 \in 1 .. 8 /\ 0 \in Int /\ FALSE \in BOOLEAN BY DEF E1Pc
  <1>3. E1Types BY Zenon, <1>2 DEF E1Init, E1Types
  <1>4. Programs BY <1>1 DEF Programs
  <1> QED BY Zenon, <1>3, <1>4 DEF E1Inv

LEMMA E1NextInv == E1Inv /\ [E1Next]_e1 => E1Inv'
  <1> SUFFICES ASSUME E1Inv, [E1Next]_e1 PROVE E1Inv' OBVIOUS
  <1>a. E1Types /\ Programs BY Zenon DEF E1Inv
  <1>t. /\ e1.pc \in E1Pc /\ e1.next \in 1 .. 8 /\ e1.timeout \in Int /\ e1.rst \in BOOLEAN
        /\ e1.slow \in BOOLEAN /\ e1.set \in SUBSET {Groups[k] : k \in 1 .. 7} /\ e1.up \in BOOLEAN
    BY Zenon, <1>a DEF E1Types
  <1>g. Len(Groups) = 7 BY DEF Groups
  <1>p. E1_POLLS \in Int BY E1000Assumption
  <1>1. CASE NotFound
    <2>1. /\ e1.pc = "off" /\ e1'.pc = "absent" /\ e1'.next = e1.next
          /\ e1'.timeout = e1.timeout /\ e1'.rst = e1.rst /\ e1'.slow = e1.slow
          /\ e1'.set = e1.set /\ e1'.up = e1.up
      BY <1>a, <1>1 DEF NotFound, E1Types
    <2>2. E1Types'
      <3>1. "absent" \in E1Pc BY DEF E1Pc
      <3> QED BY Zenon, <1>a, <1>1, <3>1 DEF NotFound, E1Types
    <2>3. Programs' BY <1>a, <1>t, <1>g, <2>1 DEF Programs
    <2> QED BY Zenon, <2>2, <2>3 DEF E1Inv
  <1>2. CASE StartReset
    <2>1. /\ e1.pc = "off" /\ e1'.pc = "reset" /\ e1'.timeout = E1_POLLS /\ e1'.rst = TRUE
          /\ e1'.next = e1.next /\ e1'.slow = e1.slow /\ e1'.set = e1.set /\ e1'.up = e1.up
      BY <1>a, <1>2 DEF StartReset, E1Types
    <2>2. E1Types'
      <3>1. "reset" \in E1Pc /\ E1_POLLS \in Int BY <1>p DEF E1Pc
      <3> QED BY Zenon, <1>a, <1>2, <3>1 DEF StartReset, E1Types
    <2>3. Programs' BY <1>a, <1>t, <1>g, <2>1 DEF Programs
    <2> QED BY Zenon, <2>2, <2>3 DEF E1Inv
  <1>3. CASE PollRst
    <2>1. /\ e1.pc = "reset" /\ e1'.timeout = (IF e1.rst THEN e1.timeout - 1 ELSE e1.timeout)
          /\ e1'.slow = (e1.rst /\ e1.timeout = 0)
          /\ e1'.pc = (IF ~e1.rst \/ e1.timeout = 0 THEN "write" ELSE e1.pc)
          /\ e1'.next = e1.next /\ e1'.rst = e1.rst /\ e1'.set = e1.set /\ e1'.up = e1.up
      BY <1>a, <1>3 DEF PollRst, E1Types
    <2>2. E1Types'
      <3>1. /\ (IF e1.rst THEN e1.timeout - 1 ELSE e1.timeout) \in Int /\ (e1.rst /\ e1.timeout = 0) \in BOOLEAN
            /\ (IF ~e1.rst \/ e1.timeout = 0 THEN "write" ELSE e1.pc) \in E1Pc
        BY <1>t DEF E1Pc
      <3> QED BY Zenon, <1>a, <1>3, <3>1 DEF PollRst, E1Types
    <2>3. Programs' BY <1>a, <1>t, <1>g, <2>1 DEF Programs
    <2> QED BY Zenon, <2>2, <2>3 DEF E1Inv
  <1>4. CASE WriteGroup
    <2>1. /\ e1.pc = "write" /\ e1'.set = e1.set \cup {Groups[e1.next]}
          /\ e1'.next = e1.next + 1
          /\ e1'.pc = (IF e1.next = Len(Groups) THEN "link" ELSE e1.pc)
          /\ e1'.timeout = E1_POLLS /\ e1'.rst = e1.rst /\ e1'.slow = e1.slow /\ e1'.up = e1.up
      BY <1>a, <1>4 DEF WriteGroup, E1Types
    <2>2. E1Types'
      <3>0. e1.next \in 1 .. 7 BY <1>a, <1>t, <2>1 DEF Programs
      <3>1. e1.set \cup {Groups[e1.next]} \in SUBSET {Groups[k] : k \in 1 .. 7} BY Zenon, <1>t, <3>0
      <3>2. e1.next + 1 \in 1 .. 8 /\ E1_POLLS \in Int BY <1>p, <3>0
      <3>3. (IF e1.next = Len(Groups) THEN "link" ELSE e1.pc) \in E1Pc BY <1>t DEF E1Pc
      <3> QED BY Zenon, <1>a, <1>4, <3>1, <3>2, <3>3 DEF WriteGroup, E1Types
    <2>3. Programs' BY <1>a, <1>t, <1>g, <2>1 DEF Programs
    <2> QED BY Zenon, <2>2, <2>3 DEF E1Inv
  <1>5. CASE PollLink
    <2>1. /\ e1.pc = "link" /\ e1'.timeout = e1.timeout - 1
          /\ e1'.pc = (IF e1.up \/ e1.timeout <= 1 THEN "ready" ELSE e1.pc)
          /\ e1'.next = e1.next /\ e1'.rst = e1.rst /\ e1'.slow = e1.slow /\ e1'.set = e1.set
          /\ e1'.up = e1.up
      BY <1>a, <1>5 DEF PollLink, E1Types
    <2>2. E1Types'
      <3>1. e1.timeout - 1 \in Int /\ (IF e1.up \/ e1.timeout <= 1 THEN "ready" ELSE e1.pc) \in E1Pc BY <1>t DEF E1Pc
      <3> QED BY Zenon, <1>a, <1>5, <3>1 DEF PollLink, E1Types
    <2>3. Programs' BY <1>a, <1>t, <1>g, <2>1 DEF Programs
    <2> QED BY Zenon, <2>2, <2>3 DEF E1Inv
  <1>6. CASE CardResetEnds
    <2>1. /\ e1.rst = TRUE /\ e1'.rst = FALSE /\ e1'.set = {} /\ e1'.pc = e1.pc
          /\ e1'.next = e1.next /\ e1'.timeout = e1.timeout /\ e1'.slow = e1.slow
          /\ e1'.up = e1.up
      BY <1>a, <1>6 DEF CardResetEnds, E1Types
    <2>2. E1Types'
      <3>1. {} \in SUBSET {Groups[k] : k \in 1 .. 7} BY Zenon
      <3> QED BY Zenon, <1>a, <1>6, <3>1 DEF CardResetEnds, E1Types
    <2>3. Programs' BY <1>a, <1>t, <1>g, <2>1 DEF Programs
    <2> QED BY Zenon, <2>2, <2>3 DEF E1Inv
  <1>7. CASE CardLink
    <2>1. /\ e1'.up = ~e1.up /\ e1'.pc = e1.pc /\ e1'.next = e1.next
          /\ e1'.timeout = e1.timeout /\ e1'.rst = e1.rst /\ e1'.slow = e1.slow
          /\ e1'.set = e1.set
      BY <1>a, <1>7 DEF CardLink, E1Types
    <2>2. E1Types'
      <3>1. (~e1.up) \in BOOLEAN OBVIOUS
      <3> QED BY Zenon, <1>a, <1>7, <3>1 DEF CardLink, E1Types
    <2>3. Programs' BY <1>a, <1>t, <1>g, <2>1 DEF Programs
    <2> QED BY Zenon, <2>2, <2>3 DEF E1Inv
  <1>8. CASE UNCHANGED e1
    BY <1>8, <1>a DEF E1Inv, E1Types, Programs
  <1> QED BY Zenon, <1>1, <1>2, <1>3, <1>4, <1>5, <1>6, <1>7, <1>8 DEF E1Next, NetInitStep

LEMMA E1Always == Spec => []E1Inv
  <1>1. Init => E1Init BY Zenon DEF Init
  <1> QED BY <1>1, E1InitInv, E1NextInv, EachDriverSteps, PTL DEF Spec

\* Receiving comes after the multicast table, the address and the ring.
LEMMA RxIsSetUp == E1Inv => RxAfterSetup
  <1> SUFFICES ASSUME E1Inv, ~e1.slow, "RCTL" \in e1.set PROVE {"MTA", "RA", "RXRING"} \subseteq e1.set
    BY Zenon DEF RxAfterSetup
  <1>1. e1.pc \in E1Pc /\ e1.next \in 1 .. 8 BY Zenon DEF E1Inv, E1Types
  <1>2. e1.set = {Groups[k] : k \in 1 .. e1.next - 1} BY <1>1 DEF E1Inv, Programs, E1Pc
  <1>3. Groups[1] = "MTA" /\ Groups[2] = "RA" /\ Groups[3] = "RXRING" BY DEF Groups
  <1>4. PICK k \in 1 .. e1.next - 1 : Groups[k] = "RCTL" BY Zenon, <1>2
  <1>5. k \in 1 .. 7 BY <1>1
  <1>6. k >= 4 BY <1>3, <1>4, <1>5
  <1>7. 1 \in 1 .. e1.next - 1 /\ 2 \in 1 .. e1.next - 1 /\ 3 \in 1 .. e1.next - 1 BY <1>1, <1>6
  <1> QED BY Zenon, <1>2, <1>3, <1>7

\* Neither card receives before it is set up, whatever the firmware left behind
\* and however long its reset takes (ne2000.c:60-75, e1000.c:26-28).
THEOREM CardsStayQuiet == Spec => []CardsQuiet
  <1>1. NeInv /\ E1Inv => CardsQuiet BY Zenon, RxIsSetUp DEF NeInv, CardsQuiet
  <1> QED BY <1>1, NeAlways, E1Always, PTL










-----------------------------------------------------------------------------
(* The interrupt controllers.                                              *)

Record(p) == [mask |-> p.mask, serving |-> p.serving, base |-> p.base, icw |-> p.icw]

PicTypes ==
  /\ pic = [i \in 1 .. 2 |-> Record(pic[i])]
  /\ saved = [i \in 1 .. 2 |-> saved[i]] /\ asked = [i \in 1 .. 2 |-> asked[i]]
  /\ access = [chip |-> access.chip, value |-> access.value] /\ access.chip \in 0 .. 2
  /\ remap \in 0 .. 11 /\ raised \subseteq Lines /\ cpu \in Lines \cup {Idle} /\ iflag \in BOOLEAN

\* Controller i gets every second of the writes, starting with the i-th: after n
\* accesses it expects this word, and its base and its mask are as they should be.
Word(n) == CASE n <= 0 -> 0 [] n \in 1 .. 2 -> 2 [] n \in 3 .. 4 -> 3 [] n \in 5 .. 6 -> 4 [] n > 6 -> 0
Programmed(i, p, n, mask) ==
  /\ p.icw = Word(n)
  /\ n > 2 => p.base = IF i = 1 THEN 32 ELSE 40
  /\ n <= 0 \/ n > 8 => p.mask = mask

\* Interrupts stay off until pic_remap has returned; from then on each mask is
\* the one the kernel asked for, but for the one a mask call is about to write.
Remaps ==
  /\ remap < 11 => ~iflag /\ cpu = Idle /\ access = NoAccess
  /\ remap \in 1 .. 10 => saved = asked
  /\ access = NoAccess <=> access.chip = 0
  /\ \A i \in 1 .. 2 : access.chip # i => Programmed(i, pic[i], remap - i, asked[i])
  /\ \A i \in 1 .. 2 : access.chip = i =>
       access.value = asked[i] /\ Programmed(i, pic[i], remap - i, pic[i].mask)

\* The lines in service are those of the one handler that runs.
Serves ==
  /\ cpu = Idle => pic[1].serving = {} /\ pic[2].serving = {}
  /\ cpu \in 0 .. 7 => pic[1].serving = {cpu} /\ pic[2].serving = {}
  /\ cpu \in 8 .. 15 => pic[1].serving = {CASCADE} /\ pic[2].serving = {cpu - 8}

PicInv == PicTypes /\ Remaps /\ Serves

LEMMA RemapLength == Len(RemapWrites) = 10
  BY DEF RemapWrites

\* What the two ports do to a controller.
LEMMA PortWrites ==
  ASSUME NEW p, p = Record(p), NEW byte
  PROVE  /\ OutCmd(p, 17) = [mask |-> 0, serving |-> {}, base |-> p.base, icw |-> 2]
         /\ OutCmd(p, 32) = [mask |-> p.mask, serving |-> {b \in p.serving : \E c \in p.serving : c < b},
                             base |-> p.base, icw |-> p.icw]
         /\ p.icw = 2 => OutData(p, byte) = [mask |-> p.mask, serving |-> p.serving, base |-> byte, icw |-> 3]
         /\ p.icw = 3 => OutData(p, byte) = [mask |-> p.mask, serving |-> p.serving, base |-> p.base, icw |-> 4]
         /\ p.icw = 4 => OutData(p, byte) = [mask |-> p.mask, serving |-> p.serving, base |-> p.base, icw |-> 0]
         /\ p.icw = 0 => OutData(p, byte) = [mask |-> byte, serving |-> p.serving, base |-> p.base, icw |-> 0]
  <1>1. OutCmd(p, 17) = [mask |-> 0, serving |-> {}, base |-> p.base, icw |-> 2]
    BY Zenon DEF OutCmd, Record
  <1>2. OutCmd(p, 32) = [mask |-> p.mask, serving |-> {b \in p.serving : \E c \in p.serving : c < b},
                         base |-> p.base, icw |-> p.icw]
    BY DEF OutCmd, Record
  <1>3. /\ p.icw = 2 => OutData(p, byte) = [p EXCEPT !.base = byte, !.icw = 3]
        /\ p.icw = 3 => OutData(p, byte) = [p EXCEPT !.icw = 4]
        /\ p.icw = 4 => OutData(p, byte) = [p EXCEPT !.icw = 0]
        /\ p.icw = 0 => OutData(p, byte) = [p EXCEPT !.mask = byte]
    BY DEF OutData
  <1>4. [p EXCEPT !.base = byte, !.icw = 3] = [mask |-> p.mask, serving |-> p.serving, base |-> byte, icw |-> 3]
    <2> DEFINE g == [p EXCEPT !.base = byte]
    <2>1. g = [mask |-> p.mask, serving |-> p.serving, base |-> byte, icw |-> p.icw] BY DEF Record
    <2>2. [p EXCEPT !.base = byte, !.icw = 3] = [g EXCEPT !.icw = 3] BY Zenon
    <2> HIDE DEF g
    <2>3. [g EXCEPT !.icw = 3] = [mask |-> p.mask, serving |-> p.serving, base |-> byte, icw |-> 3] BY <2>1
    <2> QED BY Zenon, <2>2, <2>3
  <1>5. [p EXCEPT !.icw = 4] = [mask |-> p.mask, serving |-> p.serving, base |-> p.base, icw |-> 4]
    BY DEF Record
  <1>6. [p EXCEPT !.icw = 0] = [mask |-> p.mask, serving |-> p.serving, base |-> p.base, icw |-> 0]
    BY DEF Record
  <1>7. [p EXCEPT !.mask = byte] = [mask |-> byte, serving |-> p.serving, base |-> p.base, icw |-> p.icw]
    BY DEF Record
  <1> QED BY Zenon, <1>1, <1>2, <1>3, <1>4, <1>5, <1>6, <1>7

LEMMA PicInitInv == PicInit => PicInv
  <1> SUFFICES ASSUME PicInit PROVE PicInv OBVIOUS
  <1>1. asked \in [1 .. 2 -> 0 .. 255] BY PicAssumption DEF PicInit
  <1>2. /\ \A i \in 1 .. 2 : pic[i].mask = asked[i] /\ pic[i].serving = {} /\ pic[i].icw = 0
        /\ remap = 0 /\ access = NoAccess /\ iflag = FALSE /\ raised = {} /\ cpu = Idle
    BY DEF PicInit
  <1>3. PicTypes
    <2>1. pic = [i \in 1 .. 2 |-> Record(pic[i])] BY Zenon DEF PicInit, Record
    <2>2. saved = [i \in 1 .. 2 |-> saved[i]] /\ asked = [i \in 1 .. 2 |-> asked[i]] BY <1>1 DEF PicInit
    <2>3. access = [chip |-> access.chip, value |-> access.value] /\ access.chip \in 0 .. 2
      BY <1>2 DEF NoAccess
    <2>4. remap \in 0 .. 11 BY <1>2
    <2> QED BY Zenon, <1>2, <2>1, <2>2, <2>3, <2>4 DEF PicTypes
  <1>4. Remaps BY <1>2 DEF Remaps, NoAccess, Programmed, Word
  <1>5. Serves
    <2>1. cpu \notin 0 .. 7 /\ cpu \notin 8 .. 15 BY <1>2 DEF Idle
    <2>2. 1 \in 1 .. 2 /\ 2 \in 1 .. 2 OBVIOUS
    <2> QED BY Zenon, <1>2, <2>1, <2>2 DEF Serves
  <1> QED BY <1>3, <1>4, <1>5 DEF PicInv

LEMMA RemapKeeps == PicInv /\ PicRemap => PicInv'
  <1> SUFFICES ASSUME PicInv, PicRemap PROVE PicInv' OBVIOUS
  <1>1. /\ remap \in 0 .. 10 /\ remap' = remap + 1 /\ UNCHANGED <<access, iflag, raised, cpu, asked>>
        /\ iflag = FALSE /\ cpu = Idle /\ access = NoAccess
    BY RemapLength DEF PicInv, PicTypes, Remaps, PicRemap, Remapped
  <1>2. CASE remap = 0
    <2>1. pic' = pic /\ saved' = [i \in 1 .. 2 |-> pic[i].mask] BY <1>2 DEF PicRemap
    <2>2. \A i \in 1 .. 2 : Programmed(i, pic[i], 0 - i, asked[i]) BY <1>1, <1>2 DEF PicInv, Remaps, NoAccess
    <2>3. \A i \in 1 .. 2 : pic[i].mask = asked[i] BY <2>2 DEF Programmed
    <2>4. saved' = asked /\ saved' = [i \in 1 .. 2 |-> saved'[i]] BY <2>1, <2>3 DEF PicInv, PicTypes
    <2>5. PicTypes'
      <3>1. remap' \in 0 .. 11 BY <1>1
      <3> QED BY Zenon, <1>1, <2>1, <2>4, <3>1 DEF PicInv, PicTypes, Record
    <2>6. \A i \in 1 .. 2 : Programmed(i, pic[i], 1 - i, asked[i]) BY <2>2 DEF Programmed, Word
    <2>7. Remaps' BY <1>1, <1>2, <2>1, <2>4, <2>6 DEF PicInv, Remaps, NoAccess, Programmed, Word
    <2>8. Serves' BY <1>1, <2>1 DEF PicInv, Serves
    <2> QED BY <2>5, <2>7, <2>8 DEF PicInv
  <1>3. CASE remap \in 1 .. 10
    <2> DEFINE w == RemapWrites[remap]
    <2>1. /\ pic' = [pic EXCEPT ![w[1]] = IF w[2] = "cmd" THEN OutCmd(@, w[3]) ELSE OutData(@, w[3])]
          /\ saved' = saved
      BY <1>3 DEF PicRemap
    <2>2. \A i \in 1 .. 2 : /\ Programmed(i, pic[i], remap - i, asked[i]) /\ pic[i] = Record(pic[i])
                            /\ pic[i].serving = {} /\ saved[i] = asked[i]
      BY <1>1, <1>3 DEF PicInv, PicTypes, Remaps, Serves, NoAccess
    <2>3. ASSUME NEW c \in 1 .. 2, NEW d \in 1 .. 2, c # d, NEW q, pic' = [pic EXCEPT ![c] = q],
                 q = Record(q), q.serving = {}, Programmed(c, q, remap + 1 - c, asked[c]),
                 Programmed(d, pic[d], remap + 1 - d, asked[d])
          PROVE  PicInv'
      <3>1. DOMAIN pic = 1 .. 2 /\ pic = [i \in 1 .. 2 |-> pic[i]] BY DEF PicInv, PicTypes
      <3>2. pic'[c] = q /\ pic'[d] = pic[d] /\ pic' = [i \in 1 .. 2 |-> pic'[i]] BY Zenon, <2>3, <3>1
      <3>3. \A i \in 1 .. 2 : i = c \/ i = d BY <2>3
      <3>4. \A i \in 1 .. 2 : pic'[i] = Record(pic'[i]) /\ pic'[i].serving = {} BY Zenon, <2>2, <2>3, <3>2, <3>3
      <3>5. PicTypes'
        <4>1. remap' \in 0 .. 11 BY <1>1
        <4>2. pic' = [i \in 1 .. 2 |-> Record(pic'[i])] BY Zenon, <3>2, <3>4
        <4>3. (pic = [i \in 1 .. 2 |-> Record(pic[i])])' BY Zenon, <4>2 DEF Record
        <4>4. (saved = [i \in 1 .. 2 |-> saved[i]])' BY Zenon, <2>1 DEF PicInv, PicTypes
        <4> QED BY Zenon, <1>1, <4>1, <4>3, <4>4 DEF PicInv, PicTypes
      <3>6. \A i \in 1 .. 2 : Programmed(i, pic'[i], remap' - i, asked'[i])
        <4>1. remap' - c = remap + 1 - c /\ remap' - d = remap + 1 - d BY <1>1
        <4>2. Programmed(c, pic'[c], remap' - c, asked'[c]) BY Zenon, <1>1, <2>3, <3>2, <4>1
        <4>3. Programmed(d, pic'[d], remap' - d, asked'[d]) BY Zenon, <1>1, <2>3, <3>2, <4>1
        <4> QED BY Zenon, <3>3, <4>2, <4>3
      <3>7. Remaps'
        <4>1. (\A i \in 1 .. 2 : Programmed(i, pic[i], remap - i, asked[i]))' BY Zenon, <3>6 DEF Programmed, Word
        <4>2. access'.chip = 0 /\ access' = NoAccess' /\ (access = NoAccess)' BY <1>1 DEF NoAccess
        <4>3. remap' \in 1 .. 10 => saved' = asked' BY <1>1, <1>3, <2>1 DEF PicInv, Remaps
        <4>4. \A i \in 1 .. 2 : access'.chip # i BY <4>2
        <4>5. (remap < 11 => ~iflag /\ cpu = Idle)' BY <1>1 DEF Idle
        <4> QED BY Zenon, <4>1, <4>2, <4>3, <4>4, <4>5 DEF Remaps
      <3>8. Serves'
        <4>1. cpu' = Idle /\ cpu' \notin 0 .. 7 /\ cpu' \notin 8 .. 15 BY <1>1 DEF Idle
        <4>2. 1 \in 1 .. 2 /\ 2 \in 1 .. 2 OBVIOUS
        <4> QED BY Zenon, <3>4, <4>1, <4>2 DEF Serves
      <3> QED BY <3>5, <3>7, <3>8 DEF PicInv
    <2>4. CASE remap = 1
      <3>1. w[1] = 1 /\ w[2] = "cmd" /\ w[3] = 17 BY <2>4 DEF RemapWrites
      <3>2. pic' = [pic EXCEPT ![1] = OutCmd(pic[1], 17)] BY <2>1, <3>1
      <3>3. /\ Programmed(1, pic[1], 0, asked[1]) /\ pic[1] = Record(pic[1])
            /\ pic[1].serving = {} /\ saved[1] = asked[1]
        BY <2>2, <2>4
      <3>4. /\ OutCmd(pic[1], 17) = Record(OutCmd(pic[1], 17)) /\ OutCmd(pic[1], 17).serving = {}
            /\ Programmed(1, OutCmd(pic[1], 17), remap + 1 - 1, asked[1])
        BY <2>4, <3>3, PortWrites DEF Record, Programmed, Word
      <3>5. Programmed(2, pic[2], remap + 1 - 2, asked[2])
        BY <2>2, <2>4 DEF Programmed, Word
      <3>6. 1 \in 1 .. 2 /\ 2 \in 1 .. 2 /\ 1 # 2 OBVIOUS
      <3> HIDE DEF w
      <3> QED BY Zenon, <2>3, <3>2, <3>4, <3>5, <3>6
    <2>5. CASE remap = 2
      <3>1. w[1] = 2 /\ w[2] = "cmd" /\ w[3] = 17 BY <2>5 DEF RemapWrites
      <3>2. pic' = [pic EXCEPT ![2] = OutCmd(pic[2], 17)] BY <2>1, <3>1
      <3>3. /\ Programmed(2, pic[2], 0, asked[2]) /\ pic[2] = Record(pic[2])
            /\ pic[2].serving = {} /\ saved[2] = asked[2]
        BY <2>2, <2>5
      <3>4. /\ OutCmd(pic[2], 17) = Record(OutCmd(pic[2], 17)) /\ OutCmd(pic[2], 17).serving = {}
            /\ Programmed(2, OutCmd(pic[2], 17), remap + 1 - 2, asked[2])
        BY <2>5, <3>3, PortWrites DEF Record, Programmed, Word
      <3>5. Programmed(1, pic[1], remap + 1 - 1, asked[1])
        BY <2>2, <2>5 DEF Programmed, Word
      <3>6. 1 \in 1 .. 2 /\ 2 \in 1 .. 2 /\ 1 # 2 OBVIOUS
      <3> HIDE DEF w
      <3> QED BY Zenon, <2>3, <3>2, <3>4, <3>5, <3>6
    <2>6. CASE remap = 3
      <3>1. w[1] = 1 /\ w[2] = "data" /\ w[3] = 32 BY <2>6 DEF RemapWrites
      <3>2. pic' = [pic EXCEPT ![1] = OutData(pic[1], 32)] BY <2>1, <3>1
      <3>3. /\ Programmed(1, pic[1], 2, asked[1]) /\ pic[1] = Record(pic[1])
            /\ pic[1].serving = {} /\ saved[1] = asked[1]
        BY <2>2, <2>6
      <3>4. /\ OutData(pic[1], 32) = Record(OutData(pic[1], 32)) /\ OutData(pic[1], 32).serving = {}
            /\ Programmed(1, OutData(pic[1], 32), remap + 1 - 1, asked[1])
        BY <2>6, <3>3, PortWrites DEF Record, Programmed, Word
      <3>5. Programmed(2, pic[2], remap + 1 - 2, asked[2])
        BY <2>2, <2>6 DEF Programmed, Word
      <3>6. 1 \in 1 .. 2 /\ 2 \in 1 .. 2 /\ 1 # 2 OBVIOUS
      <3> HIDE DEF w
      <3> QED BY Zenon, <2>3, <3>2, <3>4, <3>5, <3>6
    <2>7. CASE remap = 4
      <3>1. w[1] = 2 /\ w[2] = "data" /\ w[3] = 40 BY <2>7 DEF RemapWrites
      <3>2. pic' = [pic EXCEPT ![2] = OutData(pic[2], 40)] BY <2>1, <3>1
      <3>3. /\ Programmed(2, pic[2], 2, asked[2]) /\ pic[2] = Record(pic[2])
            /\ pic[2].serving = {} /\ saved[2] = asked[2]
        BY <2>2, <2>7
      <3>4. /\ OutData(pic[2], 40) = Record(OutData(pic[2], 40)) /\ OutData(pic[2], 40).serving = {}
            /\ Programmed(2, OutData(pic[2], 40), remap + 1 - 2, asked[2])
        BY <2>7, <3>3, PortWrites DEF Record, Programmed, Word
      <3>5. Programmed(1, pic[1], remap + 1 - 1, asked[1])
        BY <2>2, <2>7 DEF Programmed, Word
      <3>6. 1 \in 1 .. 2 /\ 2 \in 1 .. 2 /\ 1 # 2 OBVIOUS
      <3> HIDE DEF w
      <3> QED BY Zenon, <2>3, <3>2, <3>4, <3>5, <3>6
    <2>8. CASE remap = 5
      <3>1. w[1] = 1 /\ w[2] = "data" /\ w[3] = 4 BY <2>8 DEF RemapWrites
      <3>2. pic' = [pic EXCEPT ![1] = OutData(pic[1], 4)] BY <2>1, <3>1
      <3>3. /\ Programmed(1, pic[1], 4, asked[1]) /\ pic[1] = Record(pic[1])
            /\ pic[1].serving = {} /\ saved[1] = asked[1]
        BY <2>2, <2>8
      <3>4. /\ OutData(pic[1], 4) = Record(OutData(pic[1], 4)) /\ OutData(pic[1], 4).serving = {}
            /\ Programmed(1, OutData(pic[1], 4), remap + 1 - 1, asked[1])
        BY <2>8, <3>3, PortWrites DEF Record, Programmed, Word
      <3>5. Programmed(2, pic[2], remap + 1 - 2, asked[2])
        BY <2>2, <2>8 DEF Programmed, Word
      <3>6. 1 \in 1 .. 2 /\ 2 \in 1 .. 2 /\ 1 # 2 OBVIOUS
      <3> HIDE DEF w
      <3> QED BY Zenon, <2>3, <3>2, <3>4, <3>5, <3>6
    <2>9. CASE remap = 6
      <3>1. w[1] = 2 /\ w[2] = "data" /\ w[3] = 2 BY <2>9 DEF RemapWrites
      <3>2. pic' = [pic EXCEPT ![2] = OutData(pic[2], 2)] BY <2>1, <3>1
      <3>3. /\ Programmed(2, pic[2], 4, asked[2]) /\ pic[2] = Record(pic[2])
            /\ pic[2].serving = {} /\ saved[2] = asked[2]
        BY <2>2, <2>9
      <3>4. /\ OutData(pic[2], 2) = Record(OutData(pic[2], 2)) /\ OutData(pic[2], 2).serving = {}
            /\ Programmed(2, OutData(pic[2], 2), remap + 1 - 2, asked[2])
        BY <2>9, <3>3, PortWrites DEF Record, Programmed, Word
      <3>5. Programmed(1, pic[1], remap + 1 - 1, asked[1])
        BY <2>2, <2>9 DEF Programmed, Word
      <3>6. 1 \in 1 .. 2 /\ 2 \in 1 .. 2 /\ 1 # 2 OBVIOUS
      <3> HIDE DEF w
      <3> QED BY Zenon, <2>3, <3>2, <3>4, <3>5, <3>6
    <2>10. CASE remap = 7
      <3>1. w[1] = 1 /\ w[2] = "data" /\ w[3] = 1 BY <2>10 DEF RemapWrites
      <3>2. pic' = [pic EXCEPT ![1] = OutData(pic[1], 1)] BY <2>1, <3>1
      <3>3. /\ Programmed(1, pic[1], 6, asked[1]) /\ pic[1] = Record(pic[1])
            /\ pic[1].serving = {} /\ saved[1] = asked[1]
        BY <2>2, <2>10
      <3>4. /\ OutData(pic[1], 1) = Record(OutData(pic[1], 1)) /\ OutData(pic[1], 1).serving = {}
            /\ Programmed(1, OutData(pic[1], 1), remap + 1 - 1, asked[1])
        BY <2>10, <3>3, PortWrites DEF Record, Programmed, Word
      <3>5. Programmed(2, pic[2], remap + 1 - 2, asked[2])
        BY <2>2, <2>10 DEF Programmed, Word
      <3>6. 1 \in 1 .. 2 /\ 2 \in 1 .. 2 /\ 1 # 2 OBVIOUS
      <3> HIDE DEF w
      <3> QED BY Zenon, <2>3, <3>2, <3>4, <3>5, <3>6
    <2>11. CASE remap = 8
      <3>1. w[1] = 2 /\ w[2] = "data" /\ w[3] = 1 BY <2>11 DEF RemapWrites
      <3>2. pic' = [pic EXCEPT ![2] = OutData(pic[2], 1)] BY <2>1, <3>1
      <3>3. /\ Programmed(2, pic[2], 6, asked[2]) /\ pic[2] = Record(pic[2])
            /\ pic[2].serving = {} /\ saved[2] = asked[2]
        BY <2>2, <2>11
      <3>4. /\ OutData(pic[2], 1) = Record(OutData(pic[2], 1)) /\ OutData(pic[2], 1).serving = {}
            /\ Programmed(2, OutData(pic[2], 1), remap + 1 - 2, asked[2])
        BY <2>11, <3>3, PortWrites DEF Record, Programmed, Word
      <3>5. Programmed(1, pic[1], remap + 1 - 1, asked[1])
        BY <2>2, <2>11 DEF Programmed, Word
      <3>6. 1 \in 1 .. 2 /\ 2 \in 1 .. 2 /\ 1 # 2 OBVIOUS
      <3> HIDE DEF w
      <3> QED BY Zenon, <2>3, <3>2, <3>4, <3>5, <3>6
    <2>12. CASE remap = 9
      <3>1. w[1] = 1 /\ w[2] = "data" /\ w[3] = saved[1] BY <2>12 DEF RemapWrites
      <3>2. pic' = [pic EXCEPT ![1] = OutData(pic[1], saved[1])] BY <2>1, <3>1
      <3>3. /\ Programmed(1, pic[1], 8, asked[1]) /\ pic[1] = Record(pic[1])
            /\ pic[1].serving = {} /\ saved[1] = asked[1]
        BY <2>2, <2>12
      <3>4. /\ OutData(pic[1], saved[1]) = Record(OutData(pic[1], saved[1])) /\ OutData(pic[1], saved[1]).serving = {}
            /\ Programmed(1, OutData(pic[1], saved[1]), remap + 1 - 1, asked[1])
        BY <2>12, <3>3, PortWrites DEF Record, Programmed, Word
      <3>5. Programmed(2, pic[2], remap + 1 - 2, asked[2])
        BY <2>2, <2>12 DEF Programmed, Word
      <3>6. 1 \in 1 .. 2 /\ 2 \in 1 .. 2 /\ 1 # 2 OBVIOUS
      <3> HIDE DEF w
      <3> QED BY Zenon, <2>3, <3>2, <3>4, <3>5, <3>6
    <2>13. CASE remap = 10
      <3>1. w[1] = 2 /\ w[2] = "data" /\ w[3] = saved[2] BY <2>13 DEF RemapWrites
      <3>2. pic' = [pic EXCEPT ![2] = OutData(pic[2], saved[2])] BY <2>1, <3>1
      <3>3. /\ Programmed(2, pic[2], 8, asked[2]) /\ pic[2] = Record(pic[2])
            /\ pic[2].serving = {} /\ saved[2] = asked[2]
        BY <2>2, <2>13
      <3>4. /\ OutData(pic[2], saved[2]) = Record(OutData(pic[2], saved[2])) /\ OutData(pic[2], saved[2]).serving = {}
            /\ Programmed(2, OutData(pic[2], saved[2]), remap + 1 - 2, asked[2])
        BY <2>13, <3>3, PortWrites DEF Record, Programmed, Word
      <3>5. Programmed(1, pic[1], remap + 1 - 1, asked[1])
        BY <2>2, <2>13 DEF Programmed, Word
      <3>6. 1 \in 1 .. 2 /\ 2 \in 1 .. 2 /\ 1 # 2 OBVIOUS
      <3> HIDE DEF w
      <3> QED BY Zenon, <2>3, <3>2, <3>4, <3>5, <3>6
    <2> QED BY <1>3, <2>4, <2>5, <2>6, <2>7, <2>8, <2>9, <2>10, <2>11, <2>12, <2>13
  <1> QED BY <1>1, <1>2, <1>3

\* Both controllers pass on the most urgent of the lines that ask.
LEMMA OneUrgent ==
  ASSUME NEW S, S \subseteq Int, NEW b \in Urgent(S) PROVE b \in S /\ Urgent(S) = {b}
  <1>1. \A c \in Urgent(S) : c = b BY DEF Urgent
  <1> QED BY Zenon, <1>1 DEF Urgent

\* A line that reaches the processor is one that a device asks for.
LEMMA TakenIsRaised ==
  ASSUME PicInv, NEW b \in FromMaster
  PROVE  \/ b # CASCADE /\ b \in 0 .. 7 /\ b \in raised
         \/ b = CASCADE /\ \E s \in 0 .. 7 : FromSlave = {s} /\ 8 + s \in raised
  <1>1. raised \subseteq 0 .. 15 /\ CASCADE \notin raised BY PicAssumption DEF PicInv, PicTypes
  <1>2. \A x \in Pending(1) : x \in 0 .. 7 /\ x \in raised BY <1>1 DEF Pending, Chip, Bit
  <1>3. \A x \in Pending(2) : x \in 0 .. 7 /\ 8 + x \in raised BY <1>1 DEF Pending, Chip, Bit
  <1>4. FromSlave \subseteq Pending(2) BY Zenon DEF FromSlave, Urgent, Passes
  <1>5. FromMaster \subseteq Pending(1) \cup (IF FromSlave = {} THEN {} ELSE {CASCADE})
    BY Zenon DEF FromMaster, Urgent, Passes
  <1>6. CASE b \in Pending(1) BY <1>1, <1>2, <1>6
  <1>7. CASE b = CASCADE /\ FromSlave # {}
    <2>1. PICK s \in FromSlave : TRUE BY <1>7
    <2>2. s \in 0 .. 7 /\ 8 + s \in raised BY <1>3, <1>4
    <2>3. Passes(pic[2], Pending(2)) \subseteq Int BY <1>3 DEF Passes
    <2>4. FromSlave = {s} BY Zenon, <2>3, OneUrgent DEF FromSlave
    <2> QED BY Zenon, <1>7, <2>2, <2>4
  <1> QED BY Zenon, <1>5, <1>6, <1>7

LEMMA TakeKeeps == PicInv /\ Take => PicInv'
  <1> SUFFICES ASSUME PicInv, Take PROVE PicInv' OBVIOUS
  <1>1. /\ iflag /\ cpu = Idle /\ UNCHANGED <<remap, saved, access, iflag, asked>>
        /\ raised' = raised \ {cpu'}
    BY Zenon DEF Take
  <1>2. PICK b \in FromMaster :
          /\ cpu' = IF b = CASCADE THEN 8 + (CHOOSE s \in FromSlave : TRUE) ELSE b
          /\ pic' = [pic EXCEPT ![1].serving = @ \cup {b},
                                ![2].serving = IF b = CASCADE THEN @ \cup FromSlave ELSE @]
    BY Zenon DEF Take
  <1>3. pic = [i \in 1 .. 2 |-> Record(pic[i])] /\ pic[1].serving = {} /\ pic[2].serving = {}
    BY Zenon, <1>1 DEF PicInv, PicTypes, Serves
  <1> DEFINE T == IF b = CASCADE THEN FromSlave ELSE {}
  <1>4. /\ pic' = [i \in 1 .. 2 |-> Record(pic'[i])]
        /\ pic'[1] = [mask |-> pic[1].mask, serving |-> {b}, base |-> pic[1].base, icw |-> pic[1].icw]
        /\ pic'[2] = [mask |-> pic[2].mask, serving |-> T, base |-> pic[2].base, icw |-> pic[2].icw]
    <2> DEFINE r1 == [pic[1] EXCEPT !.serving = @ \cup {b}]
               r2 == [pic[2] EXCEPT !.serving = IF b = CASCADE THEN @ \cup FromSlave ELSE @]
    <2>1. pic' = [pic EXCEPT ![1] = r1, ![2] = r2] BY Zenon, <1>2, <1>3
    <2>2. r1 = [mask |-> pic[1].mask, serving |-> {b}, base |-> pic[1].base, icw |-> pic[1].icw]
      BY <1>3 DEF Record
    <2>3. r2 = [mask |-> pic[2].mask, serving |-> T, base |-> pic[2].base, icw |-> pic[2].icw]
      BY <1>3 DEF Record
    <2> HIDE DEF r1, r2
    <2> DEFINE g == [pic EXCEPT ![1] = r1]
    <2>a. g = [i \in 1 .. 2 |-> IF i = 1 THEN r1 ELSE pic[2]] BY <1>3
    <2>b. pic' = [g EXCEPT ![2] = r2] BY Zenon, <2>1
    <2> HIDE DEF g
    <2>c. DOMAIN g = 1 .. 2 /\ g[1] = r1 /\ 1 \in 1 .. 2 /\ 2 \in 1 .. 2 /\ 1 # 2 BY <2>a
    <2>4. pic' = [i \in 1 .. 2 |-> pic'[i]] /\ pic'[1] = r1 /\ pic'[2] = r2 BY Zenon, <2>a, <2>b, <2>c
    <2>5. r1 = Record(r1) /\ r2 = Record(r2) BY <2>2, <2>3 DEF Record
    <2>d. \A i \in 1 .. 2 : i = 1 \/ i = 2 OBVIOUS
    <2>6. pic' = [i \in 1 .. 2 |-> Record(pic'[i])] BY Zenon, <2>4, <2>5, <2>d
    <2> QED BY Zenon, <2>2, <2>3, <2>4, <2>6
  <1>5. \/ b # CASCADE /\ cpu' = b /\ T = {} /\ b \in 0 .. 7 /\ b \in raised
        \/ b = CASCADE /\ cpu' \in 8 .. 15 /\ T = {cpu' - 8} /\ cpu' \in raised
    <2>1. CASE b # CASCADE BY Zenon, <1>2, <2>1, TakenIsRaised
    <2>2. CASE b = CASCADE
      <3>1. PICK s \in 0 .. 7 : FromSlave = {s} /\ 8 + s \in raised BY Zenon, <2>2, TakenIsRaised
      <3>2. cpu' = 8 + s /\ T = {s} BY <1>2, <2>2, <3>1
      <3> QED BY <2>2, <3>1, <3>2
    <2> QED BY Zenon, <2>1, <2>2
  <1> HIDE DEF T
  <1>6. PicTypes'
    <2>1. (pic = [i \in 1 .. 2 |-> Record(pic[i])])' BY Zenon, <1>4 DEF Record
    <2>2. cpu' \in Lines /\ raised' \subseteq Lines BY Zenon, <1>1, <1>5 DEF PicInv, PicTypes
    <2> QED BY Zenon, <1>1, <2>1, <2>2 DEF PicInv, PicTypes
  <1>7. Remaps'
    <2>1. remap = 11 BY <1>1 DEF PicInv, PicTypes, Remaps
    <2>2. \A i \in 1 .. 2 : /\ pic'[i].mask = pic[i].mask /\ pic'[i].base = pic[i].base
                            /\ pic'[i].icw = pic[i].icw
      BY <1>4
    <2>3. ASSUME NEW i \in 1 .. 2, access.chip # i PROVE Programmed(i, pic'[i], remap - i, asked[i])
      <3>1. Programmed(i, pic[i], remap - i, asked[i]) BY Zenon, <2>3 DEF PicInv, Remaps
      <3> QED BY <2>2, <3>1 DEF Programmed
    <2>4. ASSUME NEW i \in 1 .. 2, access.chip = i
          PROVE  access.value = asked[i] /\ Programmed(i, pic'[i], remap - i, pic'[i].mask)
      <3>1. access.value = asked[i] /\ Programmed(i, pic[i], remap - i, pic[i].mask)
        BY Zenon, <2>4 DEF PicInv, Remaps
      <3> QED BY <2>2, <3>1 DEF Programmed
    <2>5. ~(remap < 11) /\ remap \notin 1 .. 10 BY <2>1
    <2> QED BY Zenon, <1>1, <2>3, <2>4, <2>5 DEF PicInv, Remaps, Programmed, Word, NoAccess
  <1>8. Serves' BY <1>4, <1>5 DEF Serves, CASCADE, Idle
  <1> QED BY Zenon, <1>6, <1>7, <1>8 DEF PicInv

\* A write of a mask, and the end of a handler, change one field.
LEMMA WriteMaskKeeps == PicInv /\ WriteMask => PicInv'
  <1> SUFFICES ASSUME PicInv, WriteMask PROVE PicInv' OBVIOUS
  <1> DEFINE c == access.chip
  <1>1. /\ cpu = Idle /\ access # NoAccess /\ access' = NoAccess /\ UNCHANGED <<remap, saved, iflag, raised, cpu, asked>>
        /\ pic' = [pic EXCEPT ![c] = OutData(@, access.value)]
    BY Zenon DEF WriteMask
  <1>2. c \in 1 .. 2 BY <1>1 DEF PicInv, PicTypes, Remaps
  <1>3. access.value = asked[c] /\ Programmed(c, pic[c], remap - c, pic[c].mask) /\ pic[c] = Record(pic[c])
    BY <1>2 DEF PicInv, PicTypes, Remaps
  <1>4. remap = 11 BY <1>1 DEF PicInv, PicTypes, Remaps
  <1>5. pic[c].icw = 0 BY <1>2, <1>3, <1>4 DEF Programmed, Word
  <1> DEFINE q == [mask |-> asked[c], serving |-> pic[c].serving, base |-> pic[c].base, icw |-> 0]
  <1>6. pic' = [pic EXCEPT ![c] = q]
    <2>1. OutData(pic[c], access.value) = [mask |-> access.value, serving |-> pic[c].serving,
                                           base |-> pic[c].base, icw |-> 0]
      <3> HIDE DEF c
      <3> QED BY Zenon, <1>3, <1>5, PortWrites
    <2> QED BY Zenon, <1>1, <1>3, <2>1
  <1>7. DOMAIN pic = 1 .. 2 /\ pic = [i \in 1 .. 2 |-> pic[i]] /\ \A i \in 1 .. 2 : pic[i] = Record(pic[i])
    BY DEF PicInv, PicTypes
  <1>8. q = Record(q) /\ q.serving = pic[c].serving /\ Programmed(c, q, remap - c, asked[c])
    BY <1>2, <1>3, <1>4, <1>5 DEF Record, Programmed, Word
  <1> HIDE DEF c, q
  <1>9. /\ pic'[c] = q /\ pic' = [i \in 1 .. 2 |-> pic'[i]]
        /\ \A i \in 1 .. 2 : i # c => pic'[i] = pic[i]
    BY Zenon, <1>2, <1>6, <1>7
  <1>10. \A i \in 1 .. 2 : pic'[i] = Record(pic'[i]) /\ pic'[i].serving = pic[i].serving
    BY Zenon, <1>7, <1>8, <1>9
  <1>11. PicTypes'
    <2>1. pic' = [i \in 1 .. 2 |-> Record(pic'[i])] BY Zenon, <1>9, <1>10
    <2>2. (pic = [i \in 1 .. 2 |-> Record(pic[i])])' BY Zenon, <2>1 DEF Record
    <2>3. (access = [chip |-> access.chip, value |-> access.value] /\ access.chip \in 0 .. 2)'
      BY <1>1 DEF NoAccess
    <2> QED BY Zenon, <1>1, <2>2, <2>3 DEF PicInv, PicTypes
  <1>12. Remaps'
    <2>1. \A i \in 1 .. 2 : Programmed(i, pic'[i], remap' - i, asked'[i])
      <3>1. \A i \in 1 .. 2 : i # c => Programmed(i, pic[i], remap - i, asked[i])
        BY Zenon DEF PicInv, Remaps, c
      <3>2. \A i \in 1 .. 2 : i # c => Programmed(i, pic'[i], remap' - i, asked'[i]) BY Zenon, <1>1, <1>9, <3>1
      <3>3. Programmed(c, pic'[c], remap' - c, asked'[c])
        <4>1. remap' = remap /\ asked' = asked BY Zenon, <1>1
        <4> QED BY Zenon, <1>8, <1>9, <4>1
      <3> QED BY Zenon, <3>2, <3>3
    <2>2. (\A i \in 1 .. 2 : Programmed(i, pic[i], remap - i, asked[i]))' BY Zenon, <2>1 DEF Programmed, Word
    <2>3. access'.chip = 0 /\ access' = NoAccess' BY <1>1 DEF NoAccess
    <2>4. \A i \in 1 .. 2 : access'.chip # i BY <2>3
    <2>5. ~(remap < 11)' /\ (remap \notin 1 .. 10)' BY <1>1, <1>4
    <2> QED BY Zenon, <2>2, <2>3, <2>4, <2>5 DEF Remaps
  <1>13. Serves'
    <2>1. 1 \in 1 .. 2 /\ 2 \in 1 .. 2 OBVIOUS
    <2>2. cpu' \notin 0 .. 7 /\ cpu' \notin 8 .. 15 BY <1>1 DEF Idle
    <2> QED BY Zenon, <1>1, <1>10, <2>1, <2>2 DEF PicInv, Serves
  <1> QED BY Zenon, <1>11, <1>12, <1>13 DEF PicInv

LEMMA EoiKeeps == ASSUME NEW irq \in Lines, PicInv, PicSendEoi(irq) PROVE PicInv'
  <1>1. cpu = irq /\ cpu' = Idle /\ pic' = Eoi(irq) /\ UNCHANGED <<remap, saved, access, iflag, raised, asked>>
    BY Zenon DEF PicSendEoi
  <1>2. pic = [i \in 1 .. 2 |-> Record(pic[i])] /\ irq \in 0 .. 15 /\ irq # Idle
    BY PicAssumption DEF PicInv, PicTypes, Idle
  <1>3. /\ pic[1] = Record(pic[1]) /\ pic[2] = Record(pic[2])
        /\ \E b \in Int : pic[1].serving = {b}
        /\ IF irq >= 8 THEN \E b \in Int : pic[2].serving = {b} ELSE pic[2].serving = {}
    <2>1. pic[1] = Record(pic[1]) /\ pic[2] = Record(pic[2]) BY <1>2
    <2>2. CASE irq >= 8
      <3>1. pic[1].serving = {CASCADE} /\ pic[2].serving = {irq - 8} BY <1>1, <1>2, <2>2 DEF PicInv, Serves
      <3>2. CASCADE \in Int /\ irq - 8 \in Int BY <1>2 DEF CASCADE
      <3> QED BY Zenon, <2>1, <2>2, <3>1, <3>2
    <2>3. CASE ~(irq >= 8)
      <3>1. pic[1].serving = {irq} /\ pic[2].serving = {} /\ irq \in Int BY <1>1, <1>2, <2>3 DEF PicInv, Serves
      <3> QED BY Zenon, <2>1, <2>3, <3>1
    <2> QED BY Zenon, <2>2, <2>3
  <1> DEFINE Quiet(p) == [mask |-> p.mask, serving |-> {}, base |-> p.base, icw |-> p.icw]
  <1>4. ASSUME NEW p, p = Record(p), NEW b \in Int, p.serving = {b} PROVE OutCmd(p, 32) = Quiet(p)
    <2>1. {x \in {b} : \E y \in {b} : y < x} = {}
      <3>1. ~(b < b) OBVIOUS
      <3> QED BY Zenon, <3>1
    <2>2. OutCmd(p, 32) = [mask |-> p.mask, serving |-> {x \in p.serving : \E y \in p.serving : y < x},
                           base |-> p.base, icw |-> p.icw]
      BY Zenon, <1>4, PortWrites
    <2> QED BY Zenon, <1>4, <2>1, <2>2
  <1>5. OutCmd(pic[1], 32) = Quiet(pic[1]) BY Zenon, <1>3, <1>4
  <1>6. (IF irq >= 8 THEN OutCmd(pic[2], 32) ELSE pic[2]) = Quiet(pic[2])
    <2>1. CASE irq >= 8 BY Zenon, <1>3, <1>4, <2>1
    <2>2. CASE ~(irq >= 8) BY Zenon, <1>3, <2>2 DEF Record
    <2> QED BY Zenon, <2>1, <2>2
  <1>7. pic' = [i \in 1 .. 2 |-> Quiet(pic[i])]
    <2> DEFINE r1 == OutCmd(pic[1], 32)
               r2 == IF irq >= 8 THEN OutCmd(pic[2], 32) ELSE pic[2]
               g == [pic EXCEPT ![1] = r1]
    <2>1. pic' = [pic EXCEPT ![1] = r1, ![2] = r2] BY Zenon, <1>1, <1>2 DEF Eoi
    <2>2. r1 = Quiet(pic[1]) /\ r2 = Quiet(pic[2]) BY Zenon, <1>5, <1>6
    <2> HIDE DEF r1, r2, Quiet
    <2>3. g = [i \in 1 .. 2 |-> IF i = 1 THEN r1 ELSE pic[2]] BY <1>2
    <2>4. pic' = [g EXCEPT ![2] = r2] BY Zenon, <2>1
    <2> HIDE DEF g
    <2>5. /\ g[1] = r1 /\ DOMAIN g = 1 .. 2 /\ 1 \in 1 .. 2 /\ 2 \in 1 .. 2 /\ 1 # 2
          /\ \A i \in 1 .. 2 : i = 1 \/ i = 2
      BY <2>3
    <2>6. pic' = [i \in 1 .. 2 |-> pic'[i]] /\ pic'[1] = r1 /\ pic'[2] = r2 BY Zenon, <2>3, <2>4, <2>5
    <2> QED BY Zenon, <2>2, <2>5, <2>6
  <1>8. \A i \in 1 .. 2 : /\ pic'[i] = Record(pic'[i]) /\ pic'[i].serving = {}
                          /\ pic'[i].mask = pic[i].mask /\ pic'[i].base = pic[i].base /\ pic'[i].icw = pic[i].icw
    BY <1>7 DEF Record
  <1>9. PicTypes'
    <2>1. pic' = [i \in 1 .. 2 |-> pic'[i]] BY <1>7
    <2>2. pic' = [i \in 1 .. 2 |-> Record(pic'[i])] BY Zenon, <1>8, <2>1
    <2>3. (pic = [i \in 1 .. 2 |-> Record(pic[i])])' BY Zenon, <2>2 DEF Record
    <2> QED BY Zenon, <1>1, <2>3 DEF PicInv, PicTypes
  <1>10. Remaps'
    <2>1. remap = 11 BY <1>1, <1>2 DEF PicInv, PicTypes, Remaps
    <2>3. ASSUME NEW i \in 1 .. 2, access.chip # i PROVE Programmed(i, pic'[i], remap - i, asked[i])
      <3>1. Programmed(i, pic[i], remap - i, asked[i]) BY Zenon, <2>3 DEF PicInv, Remaps
      <3> QED BY <1>8, <3>1 DEF Programmed
    <2>4. ASSUME NEW i \in 1 .. 2, access.chip = i
          PROVE  access.value = asked[i] /\ Programmed(i, pic'[i], remap - i, pic'[i].mask)
      <3>1. access.value = asked[i] /\ Programmed(i, pic[i], remap - i, pic[i].mask)
        BY Zenon, <2>4 DEF PicInv, Remaps
      <3> QED BY <1>8, <3>1 DEF Programmed
    <2>5. ~(remap < 11) /\ remap \notin 1 .. 10 BY <2>1
    <2> QED BY Zenon, <1>1, <2>3, <2>4, <2>5 DEF PicInv, Remaps, Programmed, Word, NoAccess
  <1>11. Serves'
    <2>1. 1 \in 1 .. 2 /\ 2 \in 1 .. 2 OBVIOUS
    <2>2. cpu' \notin 0 .. 7 /\ cpu' \notin 8 .. 15 BY <1>1 DEF Idle
    <2> QED BY Zenon, <1>1, <1>8, <2>1, <2>2 DEF Serves
  <1> QED BY Zenon, <1>9, <1>10, <1>11 DEF PicInv

LEMMA ReadMaskKeeps == ASSUME NEW irq \in Lines, NEW on \in BOOLEAN, PicInv, ReadMask(irq, on) PROVE PicInv'
  <1> DEFINE c == Chip(irq)
             new(byte) == IF on THEN OrBit(byte, Bit(irq)) ELSE AndNotBit(byte, Bit(irq))
  <1>1. /\ Remapped /\ access = NoAccess /\ UNCHANGED <<pic, remap, saved, iflag, raised, cpu>>
        /\ access' = [chip |-> c, value |-> new(pic[c].mask)]
        /\ asked' = [asked EXCEPT ![c] = new(@)]
    BY Zenon DEF ReadMask
  <1>2. remap = 11 /\ access.chip = 0 BY <1>1, RemapLength DEF Remapped, NoAccess
  <1>3. c \in 1 .. 2 BY DEF Chip
  <1> HIDE DEF c
  <1>4. \A i \in 1 .. 2 : Programmed(i, pic[i], remap - i, asked[i])
    BY <1>2 DEF PicInv, Remaps
  <1>5. pic[c].mask = asked[c] BY <1>2, <1>3, <1>4 DEF Programmed
  <1> HIDE DEF new
  <1>6. /\ asked' = [i \in 1 .. 2 |-> asked'[i]] /\ asked'[c] = new(asked[c])
        /\ \A i \in 1 .. 2 : i # c => asked'[i] = asked[i]
    BY Zenon, <1>1, <1>3 DEF PicInv, PicTypes
  <1>7. access'.chip = c /\ access'.value = asked'[c] BY <1>1, <1>5, <1>6
  <1>8. PicTypes'
    <2>1. (access = [chip |-> access.chip, value |-> access.value] /\ access.chip \in 0 .. 2)' BY <1>1, <1>3, <1>7
    <2>2. (asked = [i \in 1 .. 2 |-> asked[i]])' BY Zenon, <1>6
    <2> QED BY Zenon, <1>1, <2>1, <2>2 DEF PicInv, PicTypes, Record
  <1>9. Remaps'
    <2>1. ASSUME NEW i \in 1 .. 2, access'.chip # i PROVE Programmed(i, pic'[i], remap' - i, asked'[i])
      BY Zenon, <1>1, <1>4, <1>6, <1>7, <2>1
    <2>2. ASSUME NEW i \in 1 .. 2, access'.chip = i
          PROVE  access'.value = asked'[i] /\ Programmed(i, pic'[i], remap' - i, pic'[i].mask)
      <3>1. i = c BY Zenon, <1>7, <2>2
      <3> QED BY Zenon, <1>1, <1>4, <1>5, <1>7, <3>1
    <2>3. ~(remap < 11)' /\ (remap \notin 1 .. 10)' BY <1>1, <1>2
    <2>4. (access = NoAccess <=> access.chip = 0)' BY <1>1, <1>3, <1>7 DEF NoAccess
    <2> QED BY Zenon, <2>1, <2>2, <2>3, <2>4 DEF Remaps, Programmed, Word
  <1>10. Serves' BY Zenon, <1>1 DEF PicInv, Serves
  <1> QED BY Zenon, <1>8, <1>9, <1>10 DEF PicInv

LEMMA SameKeeps ==
  ASSUME PicInv, UNCHANGED <<pic, remap, saved, access, cpu, asked>>, iflag' \in BOOLEAN, raised' \subseteq Lines,
         iflag' => remap = 11
  PROVE  PicInv'
  <1>1. PicTypes' BY Zenon DEF PicInv, PicTypes, Record
  <1>2. Remaps'
    <2>1. remap < 11 => ~iflag' OBVIOUS
    <2> QED BY Zenon, <2>1 DEF PicInv, Remaps, Programmed, Word, NoAccess
  <1>3. Serves' BY Zenon DEF PicInv, Serves
  <1> QED BY Zenon, <1>1, <1>2, <1>3 DEF PicInv

LEMMA PicNextInv == PicInv /\ [PicNext]_pic_vars => PicInv'
  <1> SUFFICES ASSUME PicInv, [PicNext]_pic_vars PROVE PicInv' OBVIOUS
  <1>a. iflag \in BOOLEAN /\ raised \subseteq Lines BY Zenon DEF PicInv, PicTypes
  <1>b. iflag => remap = 11 BY DEF PicInv, PicTypes, Remaps
  <1>1. CASE UNCHANGED pic_vars
    <2>1. UNCHANGED <<pic, remap, saved, access, cpu, asked>> /\ iflag' = iflag /\ raised' = raised
      BY Zenon, <1>1 DEF pic_vars
    <2> QED BY Zenon, <1>a, <1>b, <2>1, SameKeeps
  <1>2. CASE Sti
    <2>1. remap = 11 BY <1>2, RemapLength DEF Sti, Remapped
    <2>2. iflag' = TRUE /\ raised' = raised /\ UNCHANGED <<pic, remap, saved, access, cpu, asked>>
      BY Zenon, <1>2 DEF Sti
    <2> QED BY Zenon, <1>a, <2>1, <2>2, SameKeeps
  <1>3. ASSUME NEW irq \in Lines, Raise(irq) PROVE PicInv'
    <2>1. /\ raised' \subseteq Lines /\ iflag' = iflag
          /\ UNCHANGED <<pic, remap, saved, access, cpu, asked>>
      BY Zenon, <1>3, <1>a DEF Raise
    <2> QED BY Zenon, <1>a, <1>b, <2>1, SameKeeps
  <1>4. CASE HandlerEnds BY Zenon, <1>4, EoiKeeps DEF HandlerEnds
  <1>5. ASSUME NEW irq \in Lines, ReadMask(irq, TRUE) \/ ReadMask(irq, FALSE) PROVE PicInv'
    BY Zenon, <1>5, ReadMaskKeeps
  <1> QED BY Zenon, <1>1, <1>2, <1>3, <1>4, <1>5, RemapKeeps, TakeKeeps, WriteMaskKeeps DEF PicNext

LEMMA PicAlways == Spec => []PicInv
  <1>1. Init => PicInit BY Zenon DEF Init
  <1> QED BY <1>1, PicInitInv, PicNextInv, EachDriverSteps, PTL DEF Spec

\* For any lines and any masks the firmware leaves: the masks are the ones the
\* kernel asked for, no interrupt comes in on an exception's vector, and nothing
\* stays in service after its handler, wherever interrupts fall between the
\* accesses of pic.c.
THEOREM PicKeepsOrder == Spec => []PicInOrder
  <1>1. PicInv => PicInOrder
    <2> SUFFICES ASSUME PicInv PROVE PicInOrder OBVIOUS
    <2>1. MasksAsAsked
      <3> SUFFICES ASSUME remap = 0 \/ remap = 11, access = NoAccess, NEW i \in 1 .. 2 PROVE pic[i].mask = asked[i]
        BY RemapLength DEF MasksAsAsked, Remapped
      <3>1. Programmed(i, pic[i], remap - i, asked[i]) BY DEF PicInv, Remaps, NoAccess
      <3> QED BY <3>1 DEF Programmed
    <2>2. VectorsClear
      <3> SUFFICES ASSUME cpu # Idle PROVE pic[Chip(cpu)].base + Bit(cpu) = 32 + cpu BY Zenon DEF VectorsClear
      <3>1. cpu \in 0 .. 15 BY PicAssumption DEF PicInv, PicTypes
      <3>2. remap = 11 BY DEF PicInv, PicTypes, Remaps
      <3>3. \A i \in 1 .. 2 : \E m : Programmed(i, pic[i], remap - i, m) BY Zenon DEF PicInv, Remaps
      <3>4. pic[1].base = 32 /\ pic[2].base = 40 BY <3>2, <3>3 DEF Programmed
      <3> QED BY <3>1, <3>4 DEF Chip, Bit
    <2>3. ServiceEnds
      <3>1. \A i \in 1 .. 2 : i = 1 \/ i = 2 OBVIOUS
      <3> QED BY Zenon, <3>1 DEF PicInv, Serves, ServiceEnds
    <2> QED BY Zenon, <2>1, <2>2, <2>3 DEF PicInOrder
  <1> QED BY <1>1, PicAlways, PTL

-----------------------------------------------------------------------------
(* The serial line: the bytes of a text.                                   *)
(*                                                                         *)
(* Bytes and AllBytes are recursive functions.  What they compute is       *)
(* proved by induction over the natural numbers, in the form of a set that *)
(* contains 0 and with each number the next.                               *)

LEMMA NatsBySuccessor ==
  ASSUME NEW S, 0 \in S, \A n \in Nat : n \in S => n + 1 \in S
  PROVE  \A n \in Nat : n \in S
  <1> DEFINE T == Nat \ S
             R == OpToRel(<, Nat)
  <1>1. SUFFICES ASSUME T # {} PROVE FALSE BY Zenon
  <1>2. IsWellFoundedOn(R, Nat) BY Zenon, NatLessThanWellFounded
  <1>3. \A m, n \in Nat : m < n => <<m, n>> \in R BY DEF OpToRel
  <1>4. T \subseteq Nat BY Zenon
  <1> HIDE DEF R
  <1>5. PICK n \in T : \A m \in T : ~(<<m, n>> \in R)
    <2> HIDE DEF T
    <2> QED BY Zenon, <1>1, <1>2, <1>4, WFMin
  <1>6. n # 0 /\ n \in Nat BY DEF T
  <1>7. n - 1 \in Nat /\ n - 1 < n /\ (n - 1) + 1 = n BY <1>6
  <1>8. n - 1 \in S BY Zenon, <1>3, <1>5, <1>6, <1>7
  <1>9. n \in S BY <1>7, <1>8
  <1> QED BY <1>9

\* A function on 0 .. n given by its first value and by a step G.
ByRecursion(f, V, x, G, n) ==
  f \in [0 .. n -> V] /\ f[0] = x /\ \A i \in 1 .. n : f[i] = G[<<i, f[i - 1]>>]

\* There is one.
LEMMA RecursionExists ==
  ASSUME NEW V, NEW x \in V, NEW G \in [Nat \X V -> V], NEW n \in Nat
  PROVE  \E f : ByRecursion(f, V, x, G, n)
  <1> DEFINE Good(m, f) == f[0] = x /\ \A i \in 1 .. m : f[i] = G[<<i, f[i - 1]>>]
             S == {m \in Nat : \E f \in [0 .. m -> V] : Good(m, f)}
  <1>1. 0 \in S
    <2> DEFINE f == [i \in 0 .. 0 |-> x]
    <2>1. f \in [0 .. 0 -> V] /\ Good(0, f) OBVIOUS
    <2> HIDE DEF f, Good
    <2> QED BY <2>1
  <1>2. ASSUME NEW m \in Nat, m \in S PROVE m + 1 \in S
    <2>1. PICK f \in [0 .. m -> V] : Good(m, f) BY Zenon, <1>2
    <2> DEFINE g == [i \in 0 .. m + 1 |-> IF i = m + 1 THEN G[<<m + 1, f[m]>>] ELSE f[i]]
    <2>2. m \in 0 .. m /\ m + 1 \in Nat /\ f[m] \in V /\ G[<<m + 1, f[m]>>] \in V
      <3>1. m \in 0 .. m /\ m + 1 \in Nat OBVIOUS
      <3>2. f[m] \in V BY <3>1
      <3>3. <<m + 1, f[m]>> \in Nat \X V BY Zenon, <3>1, <3>2
      <3> QED BY Zenon, <3>1, <3>2, <3>3
    <2>3. g \in [0 .. m + 1 -> V]
      <3>1. ASSUME NEW i \in 0 .. m + 1, i # m + 1 PROVE f[i] \in V
        <4>1. i \in 0 .. m BY <3>1
        <4> QED BY Zenon, <4>1
      <3> QED BY Zenon, <2>2, <3>1
    <2>4. \A i \in 0 .. m : g[i] = f[i]
      <3>1. \A i \in 0 .. m : i \in 0 .. m + 1 /\ i # m + 1 OBVIOUS
      <3> QED BY Zenon, <3>1
    <2>5. g[m + 1] = G[<<m + 1, f[m]>>]
      <3>1. m + 1 \in 0 .. m + 1 OBVIOUS
      <3> QED BY Zenon, <3>1
    <2> HIDE DEF g
    <2>6. Good(m + 1, g)
      <3>1. g[0] = x BY <2>1, <2>4
      <3>2. ASSUME NEW i \in 1 .. m PROVE g[i] = G[<<i, g[i - 1]>>]
        <4>1. i \in 0 .. m /\ i - 1 \in 0 .. m BY <3>2
        <4>2. g[i] = f[i] /\ g[i - 1] = f[i - 1] BY Zenon, <2>4, <4>1
        <4> QED BY Zenon, <2>1, <4>2
      <3>3. g[m + 1] = G[<<m + 1, g[m + 1 - 1]>>]
        <4>1. m + 1 - 1 = m OBVIOUS
        <4> QED BY Zenon, <2>2, <2>4, <2>5, <4>1
      <3>4. ASSUME NEW i \in 1 .. m + 1 PROVE g[i] = G[<<i, g[i - 1]>>]
        <4>1. i \in 1 .. m \/ i = m + 1 OBVIOUS
        <4>2. CASE i \in 1 .. m BY Zenon, <3>2, <4>2
        <4>3. CASE i = m + 1 BY <3>3, <4>3
        <4> QED BY Zenon, <4>1, <4>2, <4>3
      <3> QED BY Zenon, <3>1, <3>4
    <2> HIDE DEF Good
    <2> QED BY Zenon, <2>2, <2>3, <2>6
  <1> HIDE DEF S
  <1>3. \A m \in Nat : m \in S BY Zenon, <1>1, <1>2, NatsBySuccessor
  <1> QED BY Zenon, <1>3 DEF S, ByRecursion

\* The characters of the texts and of a report.
Char == STRING \cup {LF, FF, "/", "n", "PANIC", "info", "regs", "halted"}

LEMMA StringsAreChars == ASSUME NEW text \in Seq(STRING) PROVE text \in Seq(Char)
  BY DEF Char

\* The i-th character as a byte of the line.
ByteAt(text, i) ==
  CASE ~IsEscape(text, i) -> text[i]
    [] IsEscape(text, i) /\ text[i + 1] = "n" -> LF
    [] IsEscape(text, i) /\ text[i + 1] = "f" -> FF

\* f[i] holds the bytes of the first i characters.
Longer(text, f, j, i) == f[i] = IF IsEscape(text, j) THEN f[j] ELSE Append(f[j], ByteAt(text, i))

BytesUpTo(text, f) ==
  /\ f \in [0 .. Len(text) -> Seq(Char)]
  /\ f[0] = <<>> /\ \A i \in 1 .. Len(text) : Longer(text, f, i - 1, i)

LEMMA ByteAtType == ASSUME NEW text \in Seq(Char), NEW i \in 1 .. Len(text) PROVE ByteAt(text, i) \in Char
  <1>1. text[i] \in Char OBVIOUS
  <1>2. CASE IsEscape(text, i)
    <2>1. text[i + 1] = "n" \/ text[i + 1] = "f" BY Zenon, <1>2 DEF IsEscape
    <2>2. LF \in Char /\ FF \in Char /\ "n" # "f" BY DEF Char
    <2>3. CASE text[i + 1] = "n" /\ text[i + 1] # "f" BY Zenon, <1>2, <2>2, <2>3 DEF ByteAt
    <2>4. CASE text[i + 1] = "f" /\ text[i + 1] # "n" BY Zenon, <1>2, <2>2, <2>4 DEF ByteAt
    <2> QED BY Zenon, <2>1, <2>2, <2>3, <2>4
  <1>3. CASE ~IsEscape(text, i) BY <1>1, <1>3 DEF ByteAt
  <1> QED BY <1>2, <1>3

\* The definition of Bytes makes sense, and gives sequences.
LEMMA BytesDefined ==
  ASSUME NEW text \in Seq(Char)
  PROVE  \E f : BytesUpTo(text, f) /\ Bytes(text) = f[Len(text)]
  <1> DEFINE V == Seq(Char)
             n == Len(text)
             B(i) == IF i \in 1 .. n THEN ByteAt(text, i) ELSE "n"
             G == [iv \in Nat \X V |-> IF IsEscape(text, iv[1] - 1) THEN iv[2] ELSE Append(iv[2], B(iv[1]))]
  <1>1. n \in Nat /\ <<>> \in V OBVIOUS
  <1>0. "n" \in Char BY DEF Char
  <1>2. ASSUME NEW i PROVE B(i) \in Char
    <2>1. CASE i \in 1 .. n BY Zenon, <2>1, ByteAtType
    <2>2. CASE i \notin 1 .. n BY Zenon, <1>0, <2>2
    <2> QED BY Zenon, <2>1, <2>2
  <1>3. G \in [Nat \X V -> V]
    <2>1. ASSUME NEW iv \in Nat \X V PROVE iv[2] \in V /\ Append(iv[2], B(iv[1])) \in V
      <3>1. iv[2] \in V BY Zenon
      <3> HIDE DEF B
      <3> QED BY <1>2, <3>1
    <2> HIDE DEF B
    <2> QED BY Zenon, <2>1
  <1> HIDE DEF B, G, V, n
  <1>4. PICK f \in [0 .. n -> V] : f[0] = <<>> /\ \A i \in 1 .. n : f[i] = G[<<i, f[i - 1]>>]
    <2>1. <<>> \in V BY <1>1
    <2>2. n \in Nat BY <1>1
    <2>3. \A x \in V : \E f : ByRecursion(f, V, x, G, n) BY Zenon, <1>3, <2>2, RecursionExists
    <2> QED BY Zenon, <2>1, <2>3 DEF ByRecursion
  <1> DEFINE Rhs(h) == [i \in 0 .. n |->
               IF i = 0 THEN <<>> ELSE IF IsEscape(text, i - 1) THEN h[i - 1] ELSE Append(h[i - 1], ByteAt(text, i))]
  <1>5. f = Rhs(f)
    <2>1. ASSUME NEW i \in 1 .. n
          PROVE  f[i] = IF IsEscape(text, i - 1) THEN f[i - 1] ELSE Append(f[i - 1], ByteAt(text, i))
      <3>1. i \in Nat /\ i - 1 \in 0 .. n BY <1>1
      <3>2. f[i - 1] \in V BY Zenon, <3>1
      <3>3. <<i, f[i - 1]>> \in Nat \X V BY Zenon, <3>1, <3>2
      <3>4. G[<<i, f[i - 1]>>] = IF IsEscape(text, i - 1) THEN f[i - 1] ELSE Append(f[i - 1], B(i))
        BY Zenon, <3>3 DEF G
      <3>5. B(i) = ByteAt(text, i) BY Zenon DEF B
      <3> QED BY Zenon, <1>4, <3>4, <3>5
    <2>2. \A i \in 0 .. n : i = 0 \/ i \in 1 .. n BY <1>1
    <2>3. \A i \in 0 .. n : f[i] = IF i = 0 THEN <<>> ELSE IF IsEscape(text, i - 1) THEN f[i - 1]
                                                      ELSE Append(f[i - 1], ByteAt(text, i))
      BY Zenon, <1>4, <2>1, <2>2
    <2>4. f = [i \in 0 .. n |-> f[i]] BY Zenon
    <2> QED BY Zenon, <2>3, <2>4
  <1> DEFINE h == CHOOSE g : g = Rhs(g)
  <1>6. h = Rhs(h) BY Zenon, <1>5
  <1>7. Bytes(text) = h[n] BY Zenon DEF Bytes, ByteAt, n
  <1> HIDE DEF h
  <1>a. h[0] = <<>> /\ \A i \in 1 .. Len(text) : Longer(text, h, i - 1, i)
    <2> DEFINE g == Rhs(h)
    <2>1. h = g BY Zenon, <1>6
    <2>2. \A i \in 0 .. n : g[i] = IF i = 0 THEN <<>> ELSE IF IsEscape(text, i - 1) THEN h[i - 1]
                                                        ELSE Append(h[i - 1], ByteAt(text, i))
      BY Zenon
    <2> HIDE DEF g
    <2>3. 0 \in 0 .. n /\ \A i \in 1 .. Len(text) : i \in 0 .. n /\ i # 0 BY <1>1 DEF n
    <2> QED BY Zenon, <2>1, <2>2, <2>3 DEF Longer
  <1>8. h \in [0 .. n -> V]
    <2> DEFINE S == {m \in Nat : m \in 0 .. n => h[m] \in V}
    <2>1. 0 \in S
      <3>1. 0 \in 0 .. n /\ 0 \in Nat BY <1>1
      <3>2. h[0] = <<>> BY Zenon, <1>a
      <3> QED BY Zenon, <1>1, <3>1, <3>2
    <2>2. ASSUME NEW m \in Nat, m \in S PROVE m + 1 \in S
      <3>1. SUFFICES ASSUME m + 1 \in 0 .. n PROVE h[m + 1] \in V
        <4>1. m + 1 \in Nat OBVIOUS
        <4> QED BY Zenon, <4>1
      <3>2. m \in 0 .. n /\ m + 1 - 1 = m /\ m + 1 \in 1 .. Len(text) BY <1>1, <3>1 DEF n
      <3>3. h[m] \in V BY Zenon, <2>2, <3>2
      <3>4. h[m + 1] = IF IsEscape(text, m) THEN h[m] ELSE Append(h[m], ByteAt(text, m + 1))
        <4>1. Longer(text, h, m, m + 1)
          <5>1. Longer(text, h, m + 1 - 1, m + 1) BY <1>a, <3>2
          <5> QED BY Zenon, <3>2, <5>1
        <4> QED BY Zenon, <4>1 DEF Longer
      <3>5. ByteAt(text, m + 1) \in Char BY Zenon, <3>2, ByteAtType
      <3>6. \A q \in Seq(Char), c \in Char : Append(q, c) \in Seq(Char) BY Zenon, AppendProperties
      <3> QED BY Zenon, <3>3, <3>4, <3>5, <3>6 DEF V
    <2> HIDE DEF S
    <2>3. \A m \in Nat : m \in S BY Zenon, <2>1, <2>2, NatsBySuccessor
    <2>4. \A m \in 0 .. n : m \in Nat BY <1>1
    <2>5. \A m \in 0 .. n : h[m] \in V BY Zenon, <2>3, <2>4 DEF S
    <2>6. h = [i \in 0 .. n |-> h[i]] BY Zenon, <1>6
    <2> QED BY Zenon, <2>5, <2>6
  <1>9. BytesUpTo(text, h) BY Zenon, <1>8, <1>a DEF BytesUpTo, n, V
  <1> QED BY Zenon, <1>7, <1>9 DEF n

LEMMA BytesType == ASSUME NEW text \in Seq(Char) PROVE Bytes(text) \in Seq(Char)
  <1>1. PICK f : BytesUpTo(text, f) /\ Bytes(text) = f[Len(text)] BY Zenon, BytesDefined
  <1>2. Len(text) \in 0 .. Len(text) OBVIOUS
  <1> QED BY Zenon, <1>1, <1>2 DEF BytesUpTo

LEMMA BytesOfNothing == Bytes(<<>>) = <<>>
  <1>1. <<>> \in Seq(Char) /\ Len(<<>>) = 0 OBVIOUS
  <1>2. PICK f : BytesUpTo(<<>>, f) /\ Bytes(<<>>) = f[Len(<<>>)] BY Zenon, <1>1, BytesDefined
  <1> QED BY Zenon, <1>1, <1>2 DEF BytesUpTo

AppendsAfter(q, r, b) == Append(q \o r, b) = q \o Append(r, b)

LEMMA AppendAfter == ASSUME NEW V, NEW q \in Seq(V), NEW r \in Seq(V), NEW b \in V PROVE AppendsAfter(q, r, b)
  BY DEF AppendsAfter

LEMMA SuffixAt ==
  ASSUME NEW V, NEW q \in Seq(V), NEW k \in Nat, k <= Len(q), NEW j \in 1 .. Len(q) - k
  PROVE  SubSeq(q, k + 1, Len(q))[j] = q[k + j]
  OBVIOUS

\* The characters serial_puts takes for one byte, and what it leaves.
Used(text) == IF IsEscape(text, 1) THEN 2 ELSE 1

Left(text) == SubSeq(text, Used(text) + 1, Len(text))

LEMMA LeftProperties ==
  ASSUME NEW text \in Seq(Char), text # <<>>
  PROVE  /\ Used(text) \in 1 .. 2 /\ Used(text) <= Len(text) /\ Len(text) \in Nat
         /\ Left(text) \in Seq(Char) /\ Len(Left(text)) = Len(text) - Used(text)
         /\ \A j \in 1 .. Len(Left(text)) : Left(text)[j] = text[Used(text) + j]
         /\ Escape(text, 1) \in Char
  <1>1. Len(text) \in Nat /\ Len(text) >= 1 OBVIOUS
  <1>2. Used(text) \in 1 .. 2 /\ Used(text) <= Len(text) BY <1>1 DEF Used, IsEscape
  <1> HIDE DEF Used
  <1>3. Used(text) + 1 \in 1 .. Len(text) + 1 BY <1>1, <1>2
  <1>4. Left(text) \in Seq(Char) /\ Len(Left(text)) = Len(text) - Used(text) BY <1>1, <1>2 DEF Left
  <1>5. \A j \in 1 .. Len(Left(text)) : Left(text)[j] = text[Used(text) + j]
    <2>1. Used(text) \in Nat BY <1>2
    <2> QED BY Zenon, <1>2, <1>4, <2>1, SuffixAt DEF Left
  <1>6. Escape(text, 1) \in Char
    <2>1. LF \in Char /\ FF \in Char BY DEF Char
    <2>2. text[1] \in Char BY <1>1
    <2> QED BY Zenon, <2>1, <2>2 DEF Escape
  <1> QED BY Zenon, <1>1, <1>2, <1>4, <1>5, <1>6

\* An escape of what is left is an escape of the text.
LEMMA LeftEscapes ==
  ASSUME NEW text \in Seq(Char), text # <<>>, NEW j \in 0 .. Len(Left(text))
  PROVE  IsEscape(Left(text), j) <=> IsEscape(text, Used(text) + j)
  <1> DEFINE u == Used(text)
             l == Left(text)
  <1>1. /\ u \in 1 .. 2 /\ u <= Len(text) /\ Len(text) \in Nat /\ Len(l) = Len(text) - u
        /\ \A k \in 1 .. Len(l) : l[k] = text[u + k]
    BY Zenon, LeftProperties
  <1>2. (u = 2) <=> IsEscape(text, 1) BY DEF Used
  <1>3. CASE j = 0
    <2>1. ~IsEscape(l, j) BY <1>3 DEF IsEscape
    <2>2. ~IsEscape(text, u)
      <3>1. CASE u = 1 BY <1>2, <3>1
      <3>2. CASE u = 2 BY <1>2, <3>2 DEF IsEscape
      <3> QED BY <1>1, <3>1, <3>2
    <2>3. u + j = u BY <1>1, <1>3
    <2> QED BY Zenon, <2>1, <2>2, <2>3
  <1>4. CASE j # 0 /\ j < Len(l)
    <2> HIDE DEF u, l
    <2>1. j \in 1 .. Len(l) /\ j + 1 \in 1 .. Len(l) /\ j \in 1 .. Len(l) - 1 /\ u + j \in 1 .. Len(text) - 1
          /\ u + j + 1 = u + (j + 1)
      BY <1>1, <1>4
    <2>2. l[j] = text[u + j] /\ l[j + 1] = text[u + j + 1]
      <3>1. l[j] = text[u + j] /\ l[j + 1] = text[u + (j + 1)] BY Zenon, <1>1, <2>1
      <3> QED BY <2>1, <3>1
    <2>3. IsEscape(l, j) <=> IsEscape(text, u + j) BY Zenon, <2>1, <2>2 DEF IsEscape
    <2> QED BY Zenon, <2>3 DEF u, l
  <1>5. CASE j # 0 /\ j = Len(l)
    <2> HIDE DEF u, l
    <2>1. j \notin 1 .. Len(l) - 1 /\ u + j \notin 1 .. Len(text) - 1 BY <1>1, <1>5
    <2>3. IsEscape(l, j) <=> IsEscape(text, u + j) BY Zenon, <2>1 DEF IsEscape
    <2> QED BY Zenon, <2>3 DEF u, l
  <1> QED BY <1>1, <1>3, <1>4, <1>5

LEMMA LeftBytes ==
  ASSUME NEW text \in Seq(Char), text # <<>>, NEW j \in 1 .. Len(Left(text))
  PROVE  ByteAt(Left(text), j) = ByteAt(text, Used(text) + j)
  <1> DEFINE u == Used(text)
             l == Left(text)
  <1>1. /\ u \in 1 .. 2 /\ u <= Len(text) /\ Len(text) \in Nat /\ Len(l) = Len(text) - u
        /\ \A k \in 1 .. Len(l) : l[k] = text[u + k]
    BY Zenon, LeftProperties
  <1>2. j \in 0 .. Len(l) BY <1>1
  <1>3. IsEscape(l, j) <=> IsEscape(text, u + j) BY Zenon, <1>2, LeftEscapes
  <1> HIDE DEF u, l
  <1>4. l[j] = text[u + j] BY Zenon, <1>1 DEF l
  <1>5. CASE ~IsEscape(l, j)
    <2>1. ByteAt(l, j) = l[j] /\ ByteAt(text, u + j) = text[u + j] BY <1>3, <1>5 DEF ByteAt
    <2> QED BY Zenon, <1>4, <2>1 DEF u, l
  <1>6. CASE IsEscape(l, j)
    <2>1. j + 1 \in 1 .. Len(l) /\ u + j + 1 = u + (j + 1) BY <1>1, <1>6 DEF IsEscape
    <2>2. l[j + 1] = text[u + j + 1]
      <3>1. l[j + 1] = text[u + (j + 1)] BY Zenon, <1>1, <2>1
      <3> QED BY <2>1, <3>1
    <2>3. "n" # "f" /\ l[j + 1] \in {"n", "f"} BY <1>6 DEF IsEscape
    <2>4. CASE l[j + 1] = "n"
      <3>1. ByteAt(l, j) = LF BY <1>6, <2>3, <2>4 DEF ByteAt
      <3>2. ByteAt(text, u + j) = LF BY <1>3, <1>6, <2>2, <2>3, <2>4 DEF ByteAt
      <3> QED BY Zenon, <3>1, <3>2 DEF u, l
    <2>5. CASE l[j + 1] = "f"
      <3>1. ByteAt(l, j) = FF BY <1>6, <2>3, <2>5 DEF ByteAt
      <3>2. ByteAt(text, u + j) = FF BY <1>3, <1>6, <2>2, <2>3, <2>5 DEF ByteAt
      <3> QED BY Zenon, <3>1, <3>2 DEF u, l
    <2> QED BY Zenon, <2>3, <2>4, <2>5
  <1> QED BY Zenon, <1>5, <1>6

\* The byte that serial_puts writes next is the first byte of the text.
LEMMA BytesStep ==
  ASSUME NEW text \in Seq(Char), text # <<>>
  PROVE  Bytes(text) = <<Escape(text, 1)>> \o Bytes(Left(text))
  <1> DEFINE u == Used(text)
             l == Left(text)
             c == <<Escape(text, 1)>>
  <1>1. /\ u \in 1 .. 2 /\ u <= Len(text) /\ Len(text) \in Nat
        /\ l \in Seq(Char) /\ Len(l) = Len(text) - u /\ Escape(text, 1) \in Char
    BY Zenon, LeftProperties
  <1>2. PICK f : BytesUpTo(text, f) /\ Bytes(text) = f[Len(text)] BY Zenon, BytesDefined
  <1>3. PICK g : BytesUpTo(l, g) /\ Bytes(l) = g[Len(l)] BY Zenon, <1>1, BytesDefined
  <1>4. c \in Seq(Char) BY <1>1
  <1>5. f[u] = c
    <2>1. ByteAt(text, 1) = Escape(text, 1)
      <3>1. CASE ~IsEscape(text, 1) BY <3>1 DEF ByteAt, Escape
      <3>2. CASE IsEscape(text, 1)
        <4>1. "n" # "f" /\ text[1 + 1] \in {"n", "f"} BY <3>2 DEF IsEscape
        <4>2. CASE text[1 + 1] = "n" BY <3>2, <4>1, <4>2 DEF ByteAt, Escape
        <4>3. CASE text[1 + 1] = "f" BY <3>2, <4>1, <4>3 DEF ByteAt, Escape
        <4> QED BY Zenon, <4>1, <4>2, <4>3
      <3> QED BY Zenon, <3>1, <3>2
    <2>2. ~IsEscape(text, 1 - 1) BY DEF IsEscape
    <2>3. 1 \in 1 .. Len(text) /\ 1 - 1 = 0 BY <1>1
    <2>4. Longer(text, f, 0, 1) /\ f[0] = <<>> BY Zenon, <1>2, <2>3 DEF BytesUpTo
    <2>5. f[1] = Append(<<>>, Escape(text, 1)) BY Zenon, <2>1, <2>2, <2>3, <2>4 DEF Longer
    <2>6. f[1] = c BY <1>1, <2>5
    <2>7. CASE u = 1 BY Zenon, <2>6, <2>7
    <2>8. CASE u = 2
      <3>1. 2 \in 1 .. Len(text) /\ 2 - 1 = 1 BY <1>1, <2>8
      <3>2. Longer(text, f, 1, 2) BY Zenon, <1>2, <3>1 DEF BytesUpTo
      <3>3. IsEscape(text, 1) BY <2>8 DEF Used
      <3>4. f[2] = f[1] BY Zenon, <3>2, <3>3 DEF Longer
      <3> QED BY Zenon, <2>6, <2>8, <3>4
    <2> QED BY <1>1, <2>7, <2>8
  <1> DEFINE S == {j \in Nat : j \in 0 .. Len(l) => f[u + j] = c \o g[j]}
  <1>6. 0 \in S
    <2>1. u + 0 = u BY <1>1
    <2>2. c \o <<>> = c BY Zenon, <1>4, ConcatEmptySeq
    <2>3. g[0] = <<>> BY Zenon, <1>3 DEF BytesUpTo
    <2>4. f[u + 0] = c \o g[0] BY Zenon, <1>5, <2>1, <2>2, <2>3
    <2>5. 0 \in Nat OBVIOUS
    <2> QED BY Zenon, <2>4, <2>5
  <1> HIDE DEF u, l, c
  <1>7. ASSUME NEW j \in Nat, j \in S PROVE j + 1 \in S
    <2>1. SUFFICES ASSUME j + 1 \in 0 .. Len(l) PROVE f[u + (j + 1)] = c \o g[j + 1]
      <3>1. j + 1 \in Nat OBVIOUS
      <3> QED BY Zenon, <3>1
    <2>2. /\ j \in 0 .. Len(l) /\ j + 1 \in 1 .. Len(l) /\ u + (j + 1) \in 1 .. Len(text)
          /\ j + 1 - 1 = j /\ u + (j + 1) - 1 = u + j
      BY <1>1, <2>1
    <2>3. f[u + j] = c \o g[j] BY Zenon, <1>7, <2>2
    <2>4. Longer(l, g, j, j + 1)
      <3>1. Longer(l, g, j + 1 - 1, j + 1) BY <1>3, <2>2 DEF BytesUpTo
      <3> QED BY Zenon, <2>2, <3>1
    <2>5. Longer(text, f, u + j, u + (j + 1))
      <3>1. \A i \in 1 .. Len(text) : Longer(text, f, i - 1, i) BY Zenon, <1>2 DEF BytesUpTo
      <3>2. PICK i \in 1 .. Len(text) : i = u + (j + 1) BY Zenon, <2>2
      <3>3. i - 1 = u + j BY <1>1, <2>2, <3>2
      <3> QED BY Zenon, <3>1, <3>2, <3>3
    <2>6. IsEscape(l, j) <=> IsEscape(text, u + j) BY Zenon, <2>2, LeftEscapes DEF u, l
    <2>7. ByteAt(l, j + 1) = ByteAt(text, u + (j + 1)) BY Zenon, <2>2, LeftBytes DEF u, l
    <2>8. CASE IsEscape(l, j)
      <3>1. g[j + 1] = g[j] BY Zenon, <2>4, <2>8 DEF Longer
      <3>2. f[u + (j + 1)] = f[u + j] BY Zenon, <2>5, <2>6, <2>8 DEF Longer
      <3> QED BY Zenon, <2>3, <3>1, <3>2
    <2>9. CASE ~IsEscape(l, j)
      <3>1. g[j + 1] = Append(g[j], ByteAt(l, j + 1)) BY Zenon, <2>4, <2>9 DEF Longer
      <3>2. f[u + (j + 1)] = Append(f[u + j], ByteAt(text, u + (j + 1))) BY Zenon, <2>5, <2>6, <2>9 DEF Longer
      <3>3. ByteAt(l, j + 1) \in Char BY Zenon, <1>1, <2>2, ByteAtType
      <3>4. g[j] \in Seq(Char) BY Zenon, <1>3, <2>2 DEF BytesUpTo
      <3>5. Append(c \o g[j], ByteAt(l, j + 1)) = c \o Append(g[j], ByteAt(l, j + 1))
        <4>1. AppendsAfter(c, g[j], ByteAt(l, j + 1)) BY Zenon, <1>4, <3>3, <3>4, AppendAfter
        <4> QED BY Zenon, <4>1 DEF AppendsAfter
      <3> QED BY Zenon, <2>3, <2>7, <3>1, <3>2, <3>5
    <2> QED BY Zenon, <2>8, <2>9
  <1> HIDE DEF S
  <1>8. \A j \in Nat : j \in S BY Zenon, <1>6, <1>7, NatsBySuccessor
  <1>9. Len(l) \in Nat /\ Len(l) \in 0 .. Len(l) /\ u + Len(l) = Len(text) BY <1>1
  <1>10. f[u + Len(l)] = c \o g[Len(l)] BY Zenon, <1>8, <1>9 DEF S
  <1> QED BY Zenon, <1>2, <1>3, <1>9, <1>10 DEF c, l

-----------------------------------------------------------------------------
(* The serial line: the bytes of several texts.                            *)

\* f[i] holds the bytes of the first i texts.
AndThen(texts, f, j, i) == f[i] = f[j] \o Bytes(texts[i])

AllUpTo(texts, f) ==
  /\ f \in [0 .. Len(texts) -> Seq(Char)]
  /\ f[0] = <<>> /\ \A i \in 1 .. Len(texts) : AndThen(texts, f, i - 1, i)

LEMMA ConcatType == ASSUME NEW V, NEW q \in Seq(V), NEW r \in Seq(V) PROVE q \o r \in Seq(V)
  OBVIOUS

\* The definition of AllBytes makes sense, and gives sequences.
LEMMA AllDefined ==
  ASSUME NEW texts \in Seq(Seq(Char))
  PROVE  \E f : AllUpTo(texts, f) /\ AllBytes(texts) = f[Len(texts)]
  <1> DEFINE V == Seq(Char)
             n == Len(texts)
             B(i) == IF i \in 1 .. n THEN Bytes(texts[i]) ELSE <<>>
             G == [iv \in Nat \X V |-> iv[2] \o B(iv[1])]
  <1>1. n \in Nat /\ <<>> \in V OBVIOUS
  <1>2. ASSUME NEW i PROVE B(i) \in V
    <2>1. CASE i \in 1 .. n
      <3>1. texts[i] \in Seq(Char) BY <2>1
      <3> QED BY Zenon, <2>1, <3>1, BytesType
    <2>2. CASE i \notin 1 .. n BY Zenon, <1>1, <2>2
    <2> QED BY Zenon, <2>1, <2>2
  <1> HIDE DEF B
  <1>3. G \in [Nat \X V -> V]
    <2>1. ASSUME NEW iv \in Nat \X V PROVE iv[2] \o B(iv[1]) \in V
      <3>1. iv[2] \in V BY Zenon
      <3> QED BY Zenon, <1>2, <3>1, ConcatType
    <2> QED BY Zenon, <2>1
  <1> HIDE DEF G, V, n
  <1>4. PICK f \in [0 .. n -> V] : f[0] = <<>> /\ \A i \in 1 .. n : f[i] = G[<<i, f[i - 1]>>]
    <2>1. <<>> \in V BY <1>1
    <2>2. n \in Nat BY <1>1
    <2>3. \A x \in V : \E f : ByRecursion(f, V, x, G, n) BY Zenon, <1>3, <2>2, RecursionExists
    <2> QED BY Zenon, <2>1, <2>3 DEF ByRecursion
  <1> DEFINE Rhs(h) == [i \in 0 .. n |-> IF i = 0 THEN <<>> ELSE h[i - 1] \o Bytes(texts[i])]
  <1>5. f = Rhs(f)
    <2>1. ASSUME NEW i \in 1 .. n PROVE f[i] = f[i - 1] \o Bytes(texts[i])
      <3>1. i \in Nat /\ i - 1 \in 0 .. n BY <1>1
      <3>2. f[i - 1] \in V BY Zenon, <3>1
      <3>3. <<i, f[i - 1]>> \in Nat \X V BY Zenon, <3>1, <3>2
      <3>4. G[<<i, f[i - 1]>>] = f[i - 1] \o B(i) BY Zenon, <3>3 DEF G
      <3>5. B(i) = Bytes(texts[i]) BY Zenon DEF B
      <3> QED BY Zenon, <1>4, <3>4, <3>5
    <2>2. \A i \in 0 .. n : i = 0 \/ i \in 1 .. n BY <1>1
    <2>3. \A i \in 0 .. n : f[i] = IF i = 0 THEN <<>> ELSE f[i - 1] \o Bytes(texts[i]) BY Zenon, <1>4, <2>1, <2>2
    <2>4. f = [i \in 0 .. n |-> f[i]] BY Zenon
    <2> QED BY Zenon, <2>3, <2>4
  <1> DEFINE h == CHOOSE g : g = Rhs(g)
  <1>6. h = Rhs(h) BY Zenon, <1>5
  <1>7. AllBytes(texts) = h[n] BY Zenon DEF AllBytes, n
  <1> HIDE DEF h
  <1>8. h[0] = <<>> /\ \A i \in 1 .. Len(texts) : AndThen(texts, h, i - 1, i)
    <2> DEFINE g == Rhs(h)
    <2>1. h = g BY Zenon, <1>6
    <2>2. \A i \in 0 .. n : g[i] = IF i = 0 THEN <<>> ELSE h[i - 1] \o Bytes(texts[i]) BY Zenon
    <2> HIDE DEF g
    <2>3. 0 \in 0 .. n /\ \A i \in 1 .. Len(texts) : i \in 0 .. n /\ i # 0 BY <1>1 DEF n
    <2> QED BY Zenon, <2>1, <2>2, <2>3 DEF AndThen
  <1>9. h \in [0 .. n -> V]
    <2> DEFINE S == {m \in Nat : m \in 0 .. n => h[m] \in V}
    <2>1. 0 \in S
      <3>1. 0 \in Nat OBVIOUS
      <3> QED BY Zenon, <1>1, <1>8, <3>1
    <2>2. ASSUME NEW m \in Nat, m \in S PROVE m + 1 \in S
      <3>1. SUFFICES ASSUME m + 1 \in 0 .. n PROVE h[m + 1] \in V
        <4>1. m + 1 \in Nat OBVIOUS
        <4> QED BY Zenon, <4>1
      <3>2. m \in 0 .. n /\ m + 1 \in 1 .. Len(texts) BY <1>1, <3>1 DEF n
      <3>3. h[m] \in V BY Zenon, <2>2, <3>2
      <3>4. AndThen(texts, h, m, m + 1)
        <4>1. PICK i \in 1 .. Len(texts) : i = m + 1 BY Zenon, <3>2
        <4>2. i - 1 = m BY <4>1
        <4> QED BY Zenon, <1>8, <4>1, <4>2
      <3>5. texts[m + 1] \in Seq(Char) BY <3>2
      <3>6. Bytes(texts[m + 1]) \in V BY Zenon, <3>5, BytesType DEF V
      <3>7. h[m] \o Bytes(texts[m + 1]) \in V BY Zenon, <3>3, <3>6, ConcatType DEF V
      <3> QED BY Zenon, <3>4, <3>7 DEF AndThen
    <2> HIDE DEF S
    <2>3. \A m \in Nat : m \in S BY Zenon, <2>1, <2>2, NatsBySuccessor
    <2>4. \A m \in 0 .. n : m \in Nat BY <1>1
    <2>5. \A m \in 0 .. n : h[m] \in V BY Zenon, <2>3, <2>4 DEF S
    <2>6. h = [i \in 0 .. n |-> h[i]] BY Zenon, <1>6
    <2> QED BY Zenon, <2>5, <2>6
  <1>10. AllUpTo(texts, h) BY Zenon, <1>8, <1>9 DEF AllUpTo, n, V
  <1> QED BY Zenon, <1>7, <1>10 DEF n

LEMMA AllBytesType == ASSUME NEW texts \in Seq(Seq(Char)) PROVE AllBytes(texts) \in Seq(Char)
  <1>1. PICK f : AllUpTo(texts, f) /\ AllBytes(texts) = f[Len(texts)] BY Zenon, AllDefined
  <1>2. Len(texts) \in 0 .. Len(texts) OBVIOUS
  <1> QED BY Zenon, <1>1, <1>2 DEF AllUpTo

LEMMA AllOfNothing == AllBytes(<<>>) = <<>>
  <1>1. <<>> \in Seq(Seq(Char)) /\ Len(<<>>) = 0 OBVIOUS
  <1>2. PICK f : AllUpTo(<<>>, f) /\ AllBytes(<<>>) = f[Len(<<>>)] BY Zenon, <1>1, AllDefined
  <1> QED BY Zenon, <1>1, <1>2 DEF AllUpTo

Joined(q, r, t) == (q \o r) \o t = q \o (r \o t)

LEMMA Joining == ASSUME NEW V, NEW q \in Seq(V), NEW r \in Seq(V), NEW t \in Seq(V) PROVE Joined(q, r, t)
  BY DEF Joined

\* The bytes of the first text, and then those of the others.
LEMMA AllStep ==
  ASSUME NEW texts \in Seq(Seq(Char)), texts # <<>>
  PROVE  AllBytes(texts) = Bytes(Head(texts)) \o AllBytes(Tail(texts))
  <1> DEFINE t == Tail(texts)
             c == Bytes(texts[1])
  <1>1. /\ Len(texts) \in Nat \ {0} /\ t \in Seq(Seq(Char)) /\ Len(t) = Len(texts) - 1
        /\ texts[1] \in Seq(Char) /\ Head(texts) = texts[1]
    OBVIOUS
  <1>2. \A k \in 1 .. Len(t) : t[k] = texts[k + 1] /\ t[k] \in Seq(Char) OBVIOUS
  <1>3. PICK f : AllUpTo(texts, f) /\ AllBytes(texts) = f[Len(texts)] BY Zenon, AllDefined
  <1>4. PICK g : AllUpTo(t, g) /\ AllBytes(t) = g[Len(t)] BY Zenon, <1>1, AllDefined
  <1>5. c \in Seq(Char) BY Zenon, <1>1, BytesType
  <1> HIDE DEF t, c
  <1> DEFINE S == {j \in Nat : j \in 0 .. Len(t) => f[j + 1] = c \o g[j]}
  <1>6. 0 \in S
    <2>1. 1 \in 1 .. Len(texts) /\ 1 - 1 = 0 /\ 0 + 1 = 1 BY <1>1
    <2>2. AndThen(texts, f, 0, 1) /\ f[0] = <<>> BY Zenon, <1>3, <2>1 DEF AllUpTo
    <2>3. <<>> \o c = c /\ c \o <<>> = c BY Zenon, <1>5, ConcatEmptySeq
    <2>4. f[1] = c BY Zenon, <2>2, <2>3 DEF AndThen, c
    <2>5. g[0] = <<>> BY Zenon, <1>4 DEF AllUpTo
    <2>6. f[0 + 1] = c \o g[0] BY Zenon, <2>1, <2>3, <2>4, <2>5
    <2>7. 0 \in Nat OBVIOUS
    <2> QED BY Zenon, <2>6, <2>7
  <1>7. ASSUME NEW j \in Nat, j \in S PROVE j + 1 \in S
    <2>1. SUFFICES ASSUME j + 1 \in 0 .. Len(t) PROVE f[j + 1 + 1] = c \o g[j + 1]
      <3>1. j + 1 \in Nat OBVIOUS
      <3> QED BY Zenon, <3>1
    <2>2. j \in 0 .. Len(t) /\ j + 1 \in 1 .. Len(t) /\ j + 1 + 1 \in 1 .. Len(texts) BY <1>1, <2>1
    <2>3. f[j + 1] = c \o g[j] BY Zenon, <1>7, <2>2
    <2>4. AndThen(t, g, j, j + 1)
      <3>1. PICK i \in 1 .. Len(t) : i = j + 1 BY Zenon, <2>2
      <3>2. i - 1 = j BY <3>1
      <3>3. AndThen(t, g, i - 1, i) BY Zenon, <1>4 DEF AllUpTo
      <3> QED BY Zenon, <3>1, <3>2, <3>3
    <2>5. AndThen(texts, f, j + 1, j + 1 + 1)
      <3>1. PICK i \in 1 .. Len(texts) : i = j + 1 + 1 BY Zenon, <2>2
      <3>2. i - 1 = j + 1 BY <3>1
      <3>3. AndThen(texts, f, i - 1, i) BY Zenon, <1>3 DEF AllUpTo
      <3> QED BY Zenon, <3>1, <3>2, <3>3
    <2>6. t[j + 1] = texts[j + 1 + 1] /\ t[j + 1] \in Seq(Char) BY Zenon, <1>2, <2>2
    <2>7. g[j] \in Seq(Char) BY Zenon, <1>4, <2>2 DEF AllUpTo
    <2>8. Bytes(t[j + 1]) \in Seq(Char) BY Zenon, <2>6, BytesType
    <2>9. Joined(c, g[j], Bytes(t[j + 1])) BY Zenon, <1>5, <2>7, <2>8, Joining
    <2>10. g[j + 1] = g[j] \o Bytes(t[j + 1]) BY Zenon, <2>4 DEF AndThen
    <2>11. f[j + 1 + 1] = (c \o g[j]) \o Bytes(t[j + 1]) BY Zenon, <2>3, <2>5, <2>6 DEF AndThen
    <2> QED BY Zenon, <2>9, <2>10, <2>11 DEF Joined
  <1> HIDE DEF S
  <1>8. \A j \in Nat : j \in S BY Zenon, <1>6, <1>7, NatsBySuccessor
  <1>9. Len(t) \in Nat /\ Len(t) \in 0 .. Len(t) /\ Len(t) + 1 = Len(texts) BY <1>1
  <1>10. f[Len(t) + 1] = c \o g[Len(t)] BY Zenon, <1>8, <1>9 DEF S
  <1> QED BY Zenon, <1>1, <1>3, <1>4, <1>9, <1>10 DEF c, t

-----------------------------------------------------------------------------
(* The serial line: the driver.                                            *)

SrTypes ==
  sr \in [todo : Seq(Seq(Char) \ {<<>>}), raw : BOOLEAN, step : 0 .. 7, dlab : BOOLEAN,
          latch : {"boot", "3", "bad"}, thr : Seq(Char), asked : Seq(Char), line : Seq(Char), lost : Nat,
          inits : Nat, calls : Nat, report : Seq(Char), torn : BOOLEAN, halted : BOOLEAN]

\* What is under way at one time.
SrShape ==
  /\ Len(sr.thr) <= 1
  /\ sr.step # 0 => sr.todo = <<>> /\ sr.report = <<>>
  /\ sr.report = <<>> => Len(sr.todo) <= 1 /\ ~sr.torn /\ ~sr.halted
  /\ sr.report # <<>> => ~sr.raw
  /\ sr.dlab => sr.step \in 3 .. 5 \/ sr.torn
  /\ sr.latch = "bad" => sr.torn
  /\ sr.halted => sr.todo = <<>>

\* The first serial_init finds nothing to lose, and each other at most a byte.
Losses ==
  /\ sr.inits = 0 => sr.thr = <<>> /\ sr.todo = <<>> /\ sr.lost = 0
  /\ sr.step \in 1 .. 6 => /\ sr.inits >= 1 /\ (sr.inits = 1 => sr.thr = <<>>)
                           /\ sr.lost = 0 \/ sr.lost <= sr.inits - 2
  /\ sr.lost = 0 \/ sr.lost <= sr.inits - 1

\* What the call that is under way still has to print.
Coming(todo, raw) == IF todo = <<>> THEN <<>> ELSE IF raw THEN todo[1] ELSE Bytes(todo[1])

Printing == sr.report = <<>> => (sr.line \o sr.thr) \o Coming(sr.todo, sr.raw) = sr.asked

\* What is out and what is still to come ends in the report.
EndsIn(out, report) == \E before \in Seq(Char) : out = before \o report

Reporting == sr.report # <<>> /\ ~sr.torn => EndsIn((sr.line \o sr.thr) \o AllBytes(sr.todo), sr.report)

SrInv == SrTypes /\ SrShape /\ Losses /\ Printing /\ Reporting

LEMMA SrFields ==
  ASSUME SrTypes
  PROVE  /\ sr.todo \in Seq(Seq(Char) \ {<<>>}) /\ sr.raw \in BOOLEAN /\ sr.step \in 0 .. 7 /\ sr.dlab \in BOOLEAN
         /\ sr.latch \in {"boot", "3", "bad"} /\ sr.thr \in Seq(Char) /\ sr.asked \in Seq(Char) /\ sr.line \in Seq(Char)
         /\ sr.lost \in Nat /\ sr.inits \in Nat /\ sr.calls \in Nat /\ sr.report \in Seq(Char)
         /\ sr.torn \in BOOLEAN /\ sr.halted \in BOOLEAN
  BY Zenon DEF SrTypes

LEMMA SrInitInv == SrInit => SrInv
  <1> SUFFICES ASSUME SrInit PROVE SrInv OBVIOUS
  <1>1. <<>> \in Seq(Char) /\ <<>> \in Seq(Seq(Char) \ {<<>>}) /\ 0 \in 0 .. 7 /\ 0 \in Nat /\ Len(<<>>) = 0 OBVIOUS
  <1>2. SrTypes BY Zenon, <1>1 DEF SrInit, SrTypes
  <1>3. /\ sr.todo = <<>> /\ sr.thr = <<>> /\ sr.line = <<>> /\ sr.asked = <<>> /\ sr.report = <<>>
        /\ sr.step = 0 /\ sr.dlab = FALSE /\ sr.latch = "boot" /\ sr.torn = FALSE /\ sr.halted = FALSE
        /\ sr.lost = 0 /\ sr.inits = 0
    BY Zenon DEF SrInit
  <1>4. SrShape BY <1>3 DEF SrShape
  <1>5. Losses BY <1>3 DEF Losses
  <1>6. Printing
    <2>1. (<<>> \o <<>>) \o <<>> = <<>> OBVIOUS
    <2> QED BY Zenon, <1>3, <2>1 DEF Printing, Coming
  <1>7. Reporting BY Zenon, <1>3 DEF Reporting
  <1> QED BY Zenon, <1>2, <1>4, <1>5, <1>6, <1>7 DEF SrInv

LEMMA StartInitKeeps == SrInv /\ StartInit => SrInv'
  <1> SUFFICES ASSUME SrInv, StartInit PROVE SrInv' OBVIOUS
  <1>a. SrTypes /\ SrShape /\ Losses /\ Printing /\ Reporting BY Zenon DEF SrInv
  <1>t. sr.step \in 0 .. 7 /\ sr.inits \in Nat /\ sr.lost \in Nat BY Zenon, <1>a, SrFields
  <1>1. /\ sr.todo = <<>> /\ sr.step = 0 /\ sr.report = <<>>
        /\ sr'.todo = sr.todo /\ sr'.raw = sr.raw /\ sr'.step = 1 /\ sr'.dlab = sr.dlab /\ sr'.latch = sr.latch
        /\ sr'.thr = sr.thr /\ sr'.asked = sr.asked /\ sr'.line = sr.line /\ sr'.lost = sr.lost
        /\ sr'.inits = sr.inits + 1 /\ sr'.report = sr.report /\ sr'.torn = sr.torn /\ sr'.halted = sr.halted
    BY <1>a DEF StartInit, SrIdle, SrTypes
  <1>2. SrTypes'
    <2>1. 1 \in 0 .. 7 /\ sr.inits + 1 \in Nat BY <1>t
    <2> QED BY Zenon, <1>a, <2>1 DEF StartInit, SrTypes
  <1>3. SrShape' BY <1>a, <1>1 DEF SrShape
  <1>4. Losses' BY <1>a, <1>t, <1>1 DEF Losses
  <1>5. Printing' BY Zenon, <1>a, <1>1 DEF Printing
  <1>6. Reporting' BY Zenon, <1>1 DEF Reporting
  <1> QED BY Zenon, <1>2, <1>3, <1>4, <1>5, <1>6 DEF SrInv

LEMMA HaltKeeps == SrInv /\ Halt => SrInv'
  <1> SUFFICES ASSUME SrInv, Halt PROVE SrInv' OBVIOUS
  <1>a. SrTypes /\ SrShape /\ Losses /\ Printing /\ Reporting BY Zenon DEF SrInv
  <1>1. /\ sr.report # <<>> /\ sr.todo = <<>>
        /\ sr'.todo = sr.todo /\ sr'.raw = sr.raw /\ sr'.step = sr.step /\ sr'.dlab = sr.dlab /\ sr'.latch = sr.latch
        /\ sr'.thr = sr.thr /\ sr'.asked = sr.asked /\ sr'.line = sr.line /\ sr'.lost = sr.lost
        /\ sr'.inits = sr.inits /\ sr'.report = sr.report /\ sr'.torn = sr.torn
    BY <1>a DEF Halt, SrTypes
  <1>2. SrTypes' BY Zenon, <1>a DEF Halt, SrTypes
  <1>3. SrShape' BY <1>a, <1>1 DEF SrShape
  <1>4. Losses' BY <1>a, <1>1 DEF Losses
  <1>5. Printing' BY Zenon, <1>1 DEF Printing
  <1>6. Reporting' BY Zenon, <1>a, <1>1 DEF Reporting
  <1> QED BY Zenon, <1>2, <1>3, <1>4, <1>5, <1>6 DEF SrInv

LEMMA UartSendsKeeps == SrInv /\ UartSends => SrInv'
  <1> SUFFICES ASSUME SrInv, UartSends PROVE SrInv' OBVIOUS
  <1>a. SrTypes /\ SrShape /\ Losses /\ Printing /\ Reporting BY Zenon DEF SrInv
  <1>t. sr.line \in Seq(Char) /\ sr.thr \in Seq(Char) BY Zenon, <1>a, SrFields
  <1>1. /\ sr.thr # <<>>
        /\ sr'.todo = sr.todo /\ sr'.raw = sr.raw /\ sr'.step = sr.step /\ sr'.dlab = sr.dlab /\ sr'.latch = sr.latch
        /\ sr'.thr = <<>> /\ sr'.asked = sr.asked /\ sr'.line = sr.line \o sr.thr /\ sr'.lost = sr.lost
        /\ sr'.inits = sr.inits /\ sr'.report = sr.report /\ sr'.torn = sr.torn /\ sr'.halted = sr.halted
    BY <1>a DEF UartSends, SrTypes
  <1>o. sr.line \o sr.thr \in Seq(Char) BY Zenon, <1>t, ConcatType
  <1>2. SrTypes'
    <2>1. <<>> \in Seq(Char) OBVIOUS
    <2> QED BY Zenon, <1>a, <1>o, <2>1 DEF UartSends, SrTypes
  <1>3. SrShape'
    <2>1. Len(<<>>) <= 1 OBVIOUS
    <2> QED BY Zenon, <1>a, <1>1, <2>1 DEF SrShape
  <1>4. Losses' BY <1>a, <1>1 DEF Losses
  <1>5. sr'.line \o sr'.thr = sr.line \o sr.thr
    <2>1. (sr.line \o sr.thr) \o <<>> = sr.line \o sr.thr BY Zenon, <1>o, ConcatEmptySeq
    <2> QED BY Zenon, <1>1, <2>1
  <1>6. Printing' BY Zenon, <1>a, <1>1, <1>5 DEF Printing
  <1>7. Reporting' BY Zenon, <1>a, <1>1, <1>5 DEF Reporting
  <1> QED BY Zenon, <1>2, <1>3, <1>4, <1>6, <1>7 DEF SrInv

\* What a concatenation begins and ends with.
LEMMA PartsOfConcat ==
  ASSUME NEW V, NEW q \in Seq(V), NEW r \in Seq(V)
  PROVE  /\ SubSeq(q \o r, 1, Len(q)) = q
         /\ SubSeq(q \o r, Len(q \o r) - Len(r) + 1, Len(q \o r)) = r
  <1> DEFINE t == q \o r
  <1>1. /\ Len(q) \in Nat /\ Len(r) \in Nat /\ t \in Seq(V) /\ Len(t) = Len(q) + Len(r)
        /\ \A i \in 1 .. Len(q) + Len(r) : t[i] = IF i <= Len(q) THEN q[i] ELSE r[i - Len(q)]
    OBVIOUS
  <1> HIDE DEF t
  <1> DEFINE a == SubSeq(t, 1, Len(q))
             b == SubSeq(t, Len(q) + 1, Len(t))
  <1>2. a \in Seq(V) /\ Len(a) = Len(q) /\ \A i \in 1 .. Len(q) : a[i] = t[i] BY <1>1
  <1>3. b \in Seq(V) /\ Len(b) = Len(r) /\ \A i \in 1 .. Len(r) : b[i] = t[Len(q) + i] BY <1>1
  <1> HIDE DEF a, b
  <1>4. \A i \in 1 .. Len(q) : a[i] = q[i] BY <1>1, <1>2
  <1>5. ASSUME NEW i \in 1 .. Len(r) PROVE b[i] = r[i]
    <2>1. Len(q) + i \in 1 .. Len(q) + Len(r) BY <1>1
    <2>2. PICK k \in 1 .. Len(q) + Len(r) : k = Len(q) + i BY Zenon, <2>1
    <2>3. ~(k <= Len(q)) /\ k - Len(q) = i BY <1>1, <2>2
    <2>4. t[k] = r[k - Len(q)] BY Zenon, <1>1, <2>3
    <2>5. b[i] = t[k] BY Zenon, <1>3, <2>2
    <2> QED BY Zenon, <2>3, <2>4, <2>5
  <1>6. a = q BY Zenon, <1>2, <1>4, SeqEqual
  <1>7. b = r BY Zenon, <1>3, <1>5, SeqEqual
  <1>8. Len(t) - Len(r) + 1 = Len(q) + 1 BY <1>1
  <1> QED BY Zenon, <1>6, <1>7, <1>8 DEF a, b, t

\* The last byte, taken back.
Undo(q, r) == SubSeq(q \o r, 1, Len(q \o r) - 1) = q

LEMMA UndoOne == ASSUME NEW q \in Seq(Char), NEW r \in Seq(Char), Len(r) = 1 PROVE Undo(q, r)
  <1>1. Len(q \o r) - 1 = Len(q)
    <2>1. Len(q \o r) = Len(q) + Len(r) /\ Len(q) \in Nat BY Zenon, ConcatProperties, LenProperties
    <2> QED BY <2>1
  <1>2. SubSeq(q \o r, 1, Len(q)) = q BY Zenon, PartsOfConcat
  <1> QED BY Zenon, <1>1, <1>2 DEF Undo

LEMMA SerialInitKeeps == SrInv /\ SerialInit => SrInv'
  <1> SUFFICES ASSUME SrInv, SerialInit PROVE SrInv' OBVIOUS
  <1>a. SrTypes /\ SrShape /\ Losses /\ Printing /\ Reporting BY Zenon DEF SrInv
  <1>t. /\ sr.step \in 0 .. 7 /\ sr.inits \in Nat /\ sr.lost \in Nat /\ sr.line \in Seq(Char) /\ sr.thr \in Seq(Char)
        /\ sr.asked \in Seq(Char)
    BY Zenon, <1>a, SrFields
  <1>s. sr.step \in 1 .. 7 /\ sr.step # 0 /\ sr.todo = <<>> /\ sr.report = <<>>
    BY <1>a, <1>t DEF SerialInit, SrShape
  <1>w. /\ Len(InitWrites) = 7 /\ (InitWrites[sr.step] = "FCR" <=> sr.step = 6)
        /\ (InitWrites[sr.step] = "DLAB" <=> sr.step = 2) /\ (InitWrites[sr.step] = "LCR" <=> sr.step = 5)
    BY <1>s DEF InitWrites
  <1> DEFINE w == InitWrites[sr.step]
             step == IF sr.step = 7 THEN 0 ELSE sr.step + 1
             dlab == CASE w = "DLAB" -> TRUE [] w = "LCR" -> FALSE [] OTHER -> sr.dlab
             latch == IF w = "DLL" THEN "3" ELSE sr.latch
             lost == IF w = "FCR" THEN sr.lost + Len(sr.thr) ELSE sr.lost
             asks == IF w = "FCR" /\ sr.thr # <<>> THEN SubSeq(sr.asked, 1, Len(sr.asked) - 1) ELSE sr.asked
             thr == IF w = "FCR" THEN <<>> ELSE sr.thr
  <1>e. sr' = [sr EXCEPT !.step = step, !.dlab = dlab, !.latch = latch, !.lost = lost, !.asked = asks, !.thr = thr]
    BY Zenon, <1>w DEF SerialInit
  <1>b. /\ step \in 0 .. 7 /\ dlab \in BOOLEAN /\ latch \in {"boot", "3", "bad"} /\ lost \in Nat
        /\ asks \in Seq(Char) /\ thr \in Seq(Char)
    <2>1. step \in 0 .. 7 BY ONLY <1>s
    <2>2. dlab \in BOOLEAN BY Zenon, <1>a, SrFields
    <2>3. latch \in {"boot", "3", "bad"} BY Zenon, <1>a, SrFields
    <2>4. lost \in Nat BY <1>t
    <2>5. asks \in Seq(Char)
      <3>1. SubSeq(sr.asked, 1, Len(sr.asked) - 1) \in Seq(Char) BY <1>t
      <3> QED BY Zenon, <1>t, <3>1
    <2>6. thr \in Seq(Char)
      <3>1. <<>> \in Seq(Char) OBVIOUS
      <3> QED BY Zenon, <1>t, <3>1
    <2> QED BY Zenon, <2>1, <2>2, <2>3, <2>4, <2>5, <2>6
  <1>c. (dlab => sr.step = 2 \/ (sr.dlab /\ sr.step # 5)) /\ (latch = "bad" => sr.latch = "bad")
    BY <1>w
  <1> HIDE DEF step, dlab, latch, lost, asks, thr
  <1>1. /\ sr'.todo = sr.todo /\ sr'.raw = sr.raw /\ sr'.step = step /\ sr'.dlab = dlab /\ sr'.latch = latch
        /\ sr'.thr = thr /\ sr'.asked = asks /\ sr'.line = sr.line /\ sr'.lost = lost
        /\ sr'.inits = sr.inits /\ sr'.report = sr.report /\ sr'.torn = sr.torn /\ sr'.halted = sr.halted
    BY <1>a, <1>e DEF SrTypes
  <1>2. SrTypes' BY Zenon, <1>a, <1>e, <1>b DEF SrTypes
  <1>3. CASE w # "FCR"
    <2>1. thr = sr.thr /\ lost = sr.lost /\ asks = sr.asked /\ sr.step # 6 BY Zenon, <1>w, <1>3 DEF thr, lost, asks
    <2>2. step = (IF sr.step = 7 THEN 0 ELSE sr.step + 1) BY Zenon DEF step
    <2>3. SrShape' BY <1>a, <1>s, <1>c, <1>1, <2>1, <2>2 DEF SrShape
    <2>4. Losses' BY <1>a, <1>s, <1>t, <1>1, <2>1, <2>2 DEF Losses
    <2>5. Printing' BY Zenon, <1>a, <1>1, <2>1 DEF Printing
    <2>6. Reporting' BY Zenon, <1>1, <1>s DEF Reporting
    <2> QED BY Zenon, <1>2, <2>3, <2>4, <2>5, <2>6 DEF SrInv
  <1>4. CASE w = "FCR"
    <2>1. sr.step = 6 /\ thr = <<>> /\ lost = sr.lost + Len(sr.thr) BY Zenon, <1>w, <1>4 DEF thr, lost
    <2>2. step = 7 BY <2>1 DEF step
    <2>3. Len(sr.thr) \in 0 .. 1 /\ (sr.thr # <<>> => Len(sr.thr) = 1) /\ (sr.thr = <<>> => Len(sr.thr) = 0)
      <3>1. Len(sr.thr) \in Nat /\ (Len(sr.thr) = 0 <=> sr.thr = <<>>) BY <1>t
      <3>2. Len(sr.thr) <= 1 BY Zenon, <1>a DEF SrShape
      <3> DEFINE n == Len(sr.thr)
                 e == sr.thr = <<>>
      <3>3. n \in Nat /\ (n = 0 <=> e) /\ n <= 1 BY Zenon, <3>1, <3>2
      <3> HIDE DEF n, e
      <3>4. n \in 0 .. 1 /\ (~e => n = 1) /\ (e => n = 0) BY <3>3
      <3> QED BY Zenon, <3>4 DEF n, e
    <2>4. SrShape' BY <1>a, <1>s, <1>c, <1>1, <2>1, <2>2 DEF SrShape
    <2>5. Losses'
      <3>1. sr.step \in 1 .. 6 BY <2>1
      <3>2. /\ sr.inits >= 1 /\ (sr.inits = 1 => sr.thr = <<>>)
            /\ sr.lost = 0 \/ sr.lost <= sr.inits - 2
        BY Zenon, <1>a, <3>1 DEF Losses
      <3>3. sr'.step = 7 /\ sr'.lost = sr.lost + Len(sr.thr) /\ sr'.inits = sr.inits BY Zenon, <1>1, <2>1, <2>2
      <3>4. sr.inits \in Nat /\ sr.lost \in Nat /\ Len(sr.thr) \in 0 .. 1 /\ (sr.inits = 1 => Len(sr.thr) = 0)
        BY Zenon, <1>t, <2>3, <3>2
      <3>5. sr'.inits # 0 /\ sr'.step \notin 1 .. 6 /\ (sr'.lost = 0 \/ sr'.lost <= sr'.inits - 1)
        <4> DEFINE n == Len(sr.thr)
                   i == sr.inits
                   k == sr.lost
        <4>1. i \in Nat /\ k \in Nat /\ n \in 0 .. 1 /\ (i = 1 => n = 0) /\ i >= 1 /\ (k = 0 \/ k <= i - 2)
          BY Zenon, <3>2, <3>4
        <4> HIDE DEF n, i, k
        <4>2. i # 0 /\ 7 \notin 1 .. 6 /\ (k + n = 0 \/ k + n <= i - 1) BY <4>1
        <4> QED BY Zenon, <3>3, <4>2 DEF n, i, k
      <3> QED BY Zenon, <3>5 DEF Losses
    <2>6. Printing'
      <3>1. sr.line \o <<>> = sr.line BY Zenon, <1>t, ConcatEmptySeq
      <3>2. sr.asked = sr.line \o sr.thr
        <4>1. sr.line \o sr.thr \in Seq(Char) BY Zenon, <1>t, ConcatType
        <4>2. (sr.line \o sr.thr) \o <<>> = sr.line \o sr.thr BY Zenon, <4>1, ConcatEmptySeq
        <4> QED BY Zenon, <1>a, <1>s, <4>2 DEF Printing, Coming
      <3>3. asks = sr.line
        <4>1. CASE sr.thr = <<>> BY Zenon, <3>1, <3>2, <4>1 DEF asks
        <4>2. CASE sr.thr # <<>>
          <5>1. Undo(sr.line, sr.thr) BY Zenon, <1>t, <2>3, <4>2, UndoOne
          <5> QED BY Zenon, <1>4, <3>2, <4>2, <5>1 DEF asks, Undo
        <4> QED BY Zenon, <4>1, <4>2
      <3>4. Coming(sr'.todo, sr'.raw) = <<>> BY Zenon, <1>1, <1>s DEF Coming
      <3> QED BY Zenon, <1>1, <2>1, <3>1, <3>3, <3>4 DEF Printing
    <2>7. Reporting' BY Zenon, <1>1, <1>s DEF Reporting
    <2> QED BY Zenon, <1>2, <2>4, <2>5, <2>6, <2>7 DEF SrInv
  <1> QED BY Zenon, <1>3, <1>4

LEMMA CallKeeps == ASSUME NEW text \in Texts, NEW raw \in BOOLEAN PROVE SrInv /\ Call(text, raw) => SrInv'
  <1> SUFFICES ASSUME SrInv, Call(text, raw) PROVE SrInv' OBVIOUS
  <1>a. SrTypes /\ SrShape /\ Losses /\ Printing /\ Reporting BY Zenon DEF SrInv
  <1>t. /\ sr.step \in 0 .. 7 /\ sr.inits \in Nat /\ sr.calls \in Nat /\ sr.line \in Seq(Char) /\ sr.thr \in Seq(Char)
        /\ sr.asked \in Seq(Char)
    BY Zenon, <1>a, SrFields
  <1>x. text \in Seq(Char) BY Zenon, SerialAssumption, StringsAreChars
  <1> DEFINE todo == IF text = <<>> THEN <<>> ELSE <<text>>
             more == IF raw THEN text ELSE Bytes(text)
  <1>y. more \in Seq(Char) BY Zenon, <1>x, BytesType
  <1>z. todo \in Seq(Seq(Char) \ {<<>>}) /\ Len(todo) <= 1
    <2>1. CASE text = <<>> BY <2>1
    <2>2. CASE text # <<>>
      <3>1. text \in Seq(Char) \ {<<>>} BY Zenon, <1>x, <2>2
      <3>2. \A V : \A v \in V : <<v>> \in Seq(V) /\ Len(<<v>>) = 1 OBVIOUS
      <3>3. <<text>> \in Seq(Seq(Char) \ {<<>>}) /\ Len(<<text>>) = 1 BY Zenon, <3>1, <3>2
      <3>4. 1 <= 1 OBVIOUS
      <3> QED BY Zenon, <2>2, <3>3, <3>4
    <2> QED BY Zenon, <2>1, <2>2
  <1>m. Coming(todo, raw) = more
    <2>1. CASE text = <<>> BY Zenon, <2>1, BytesOfNothing DEF Coming
    <2>2. CASE text # <<>>
      <3>1. <<text>> # <<>> /\ <<text>>[1] = text OBVIOUS
      <3> QED BY Zenon, <2>2, <3>1 DEF Coming
    <2> QED BY Zenon, <2>1, <2>2
  <1>e. SrIdle /\ sr.inits > 0 /\ sr' = [sr EXCEPT !.todo = todo, !.raw = raw, !.calls = @ + 1, !.asked = @ \o more]
    BY Zenon DEF Call
  <1> HIDE DEF todo, more
  <1>1. /\ sr.todo = <<>> /\ sr.step = 0 /\ sr.report = <<>> /\ sr.inits > 0
        /\ sr'.todo = todo /\ sr'.raw = raw /\ sr'.step = sr.step /\ sr'.dlab = sr.dlab /\ sr'.latch = sr.latch
        /\ sr'.thr = sr.thr /\ sr'.asked = sr.asked \o more /\ sr'.line = sr.line /\ sr'.lost = sr.lost
        /\ sr'.inits = sr.inits /\ sr'.report = sr.report /\ sr'.torn = sr.torn /\ sr'.halted = sr.halted
    BY <1>a, <1>e DEF SrIdle, SrTypes
  <1>2. SrTypes'
    <2>1. sr.calls + 1 \in Nat BY <1>t
    <2>2. sr.asked \o more \in Seq(Char) BY Zenon, <1>t, <1>y, ConcatType
    <2> QED BY Zenon, <1>a, <1>e, <1>z, <2>1, <2>2 DEF SrTypes
  <1>3. SrShape' BY Zenon, <1>a, <1>1, <1>z DEF SrShape
  <1>4. Losses' 
    <2>1. sr.inits # 0 BY <1>t, <1>1
    <2> QED BY Zenon, <1>a, <1>1, <2>1 DEF Losses
  <1>5. Printing'
    <2>1. sr.line \o sr.thr \in Seq(Char) BY Zenon, <1>t, ConcatType
    <2>2. (sr.line \o sr.thr) \o <<>> = sr.line \o sr.thr BY Zenon, <2>1, ConcatEmptySeq
    <2>3. sr.asked = sr.line \o sr.thr BY Zenon, <1>a, <1>1, <2>2 DEF Printing, Coming
    <2> QED BY Zenon, <1>1, <1>m, <2>3 DEF Printing
  <1>6. Reporting' BY Zenon, <1>1 DEF Reporting
  <1> QED BY Zenon, <1>2, <1>3, <1>4, <1>5, <1>6 DEF SrInv

\* A text is its first character and the rest.
LEMMA FirstAndRest ==
  ASSUME NEW V, NEW q \in Seq(V), q # <<>>
  PROVE  q[1] \in V /\ SubSeq(q, 2, Len(q)) \in Seq(V) /\ q = <<q[1]>> \o SubSeq(q, 2, Len(q))
  OBVIOUS

\* What a step of the printer writes and leaves of the text it prints.
LEMMA WriteStep ==
  ASSUME NEW text \in Seq(Char), text # <<>>, NEW raw \in BOOLEAN
  PROVE  LET c == IF raw THEN text[1] ELSE Escape(text, 1)
             used == IF ~raw /\ IsEscape(text, 1) THEN 2 ELSE 1
             rest == SubSeq(text, used + 1, Len(text))
         IN  /\ c \in Char /\ rest \in Seq(Char)
             /\ (IF raw THEN text ELSE Bytes(text)) = <<c>> \o (IF raw THEN rest ELSE Bytes(rest))
  <1>1. CASE raw
    <2>1. 1 + 1 = 2 OBVIOUS
    <2>2. /\ text[1] \in Char /\ SubSeq(text, 2, Len(text)) \in Seq(Char)
          /\ text = <<text[1]>> \o SubSeq(text, 2, Len(text))
      BY Zenon, FirstAndRest
    <2> QED BY Zenon, <1>1, <2>1, <2>2
  <1>2. CASE ~raw
    <2>1. Escape(text, 1) \in Char /\ Left(text) \in Seq(Char) BY Zenon, LeftProperties
    <2>2. Bytes(text) = <<Escape(text, 1)>> \o Bytes(Left(text)) BY Zenon, BytesStep
    <2> QED BY Zenon, <1>2, <2>1, <2>2 DEF Left, Used
  <1> QED BY Zenon, <1>1, <1>2

\* One more text before the others.
Put(V, x, q) ==
  /\ <<x>> \o q \in Seq(V) /\ Len(<<x>> \o q) = Len(q) + 1 /\ <<x>> \o q # <<>>
  /\ Head(<<x>> \o q) = x /\ Tail(<<x>> \o q) = q /\ (<<x>> \o q)[1] = x

LEMMA PutFirst == ASSUME NEW V, NEW x \in V, NEW q \in Seq(V) PROVE Put(V, x, q)
  BY DEF Put

LEMMA NonemptyTexts == ASSUME NEW q \in Seq(Seq(Char) \ {<<>>}) PROVE q \in Seq(Seq(Char))
  OBVIOUS

LEMMA SerialWriteKeeps == SrInv /\ SerialWrite => SrInv'
  <1> SUFFICES ASSUME SrInv, SerialWrite PROVE SrInv' OBVIOUS
  <1>a. SrTypes /\ SrShape /\ Losses /\ Printing /\ Reporting BY Zenon DEF SrInv
  <1>t. /\ sr.todo \in Seq(Seq(Char) \ {<<>>}) /\ sr.raw \in BOOLEAN /\ sr.line \in Seq(Char) /\ sr.thr \in Seq(Char)
        /\ sr.latch \in {"boot", "3", "bad"} /\ sr.inits \in Nat
    BY Zenon, <1>a, SrFields
  <1>g. sr.todo # <<>> /\ sr.step = 0 /\ sr.thr = <<>> BY Zenon DEF SerialWrite, Ready
  <1>d. sr.dlab => sr.torn BY <1>a, <1>g DEF SrShape
  <1> DEFINE text == Head(sr.todo)
             others == Tail(sr.todo)
             c    == IF sr.raw THEN text[1] ELSE Escape(text, 1)
             used == IF ~sr.raw /\ IsEscape(text, 1) THEN 2 ELSE 1
             rest == SubSeq(text, used + 1, Len(text))
             todo == IF rest = <<>> THEN others ELSE <<rest>> \o others
             Plain(x) == IF sr.raw THEN x ELSE Bytes(x)
             latch == IF sr.dlab THEN "bad" ELSE sr.latch
             thr == IF sr.dlab THEN sr.thr ELSE <<c>>
  <1>h. /\ text \in Seq(Char) \ {<<>>} /\ others \in Seq(Seq(Char) \ {<<>>}) /\ Len(others) = Len(sr.todo) - 1
        /\ sr.todo[1] = text /\ Len(sr.todo) \in Nat \ {0}
    BY <1>t, <1>g
  <1>e. sr' = [sr EXCEPT !.todo = todo, !.thr = thr, !.latch = latch] BY Zenon DEF SerialWrite
  <1> HIDE DEF text, others
  <1>w. c \in Char /\ rest \in Seq(Char) /\ Plain(text) = <<c>> \o Plain(rest)
    <2>1. text \in Seq(Char) /\ text # <<>> BY Zenon, <1>h
    <2> QED BY Zenon, <1>t, <2>1, WriteStep
  <1>p. Plain(rest) \in Seq(Char) BY Zenon, <1>w, BytesType
  <1>n. rest = <<>> => Plain(rest) = <<>> BY Zenon, BytesOfNothing
  <1> HIDE DEF c, used, rest
  <1>c. <<c>> \in Seq(Char) /\ Len(<<c>>) = 1 BY <1>w
  <1>l. latch \in {"boot", "3", "bad"} /\ (latch = "bad" => sr.latch = "bad" \/ sr.dlab) BY Zenon, <1>t
  <1>r. thr \in Seq(Char) /\ Len(thr) <= 1 /\ (~sr.dlab => thr = <<c>>)
    <2>1. CASE sr.dlab BY Zenon, <1>a, <1>t, <2>1 DEF SrShape
    <2>2. CASE ~sr.dlab
      <3>1. 1 <= 1 OBVIOUS
      <3> QED BY Zenon, <1>c, <2>2, <3>1
    <2> QED BY Zenon, <2>1, <2>2
  <1>o. /\ todo \in Seq(Seq(Char) \ {<<>>})
        /\ Len(todo) <= Len(sr.todo)
        /\ rest # <<>> => todo # <<>> /\ Head(todo) = rest /\ Tail(todo) = others /\ todo[1] = rest
    <2>1. CASE rest = <<>>
      <3>1. todo = others BY Zenon, <2>1
      <3>2. Len(others) <= Len(sr.todo) BY <1>h
      <3> QED BY Zenon, <1>h, <2>1, <3>1, <3>2
    <2>2. CASE rest # <<>>
      <3>1. todo = <<rest>> \o others BY Zenon, <2>2
      <3>2. rest \in Seq(Char) \ {<<>>} BY Zenon, <1>w, <2>2
      <3> DEFINE V == Seq(Char) \ {<<>>}
      <3>3. rest \in V /\ others \in Seq(V) BY Zenon, <1>h, <3>2
      <3> HIDE DEF V, todo
      <3>4. /\ <<rest>> \o others \in Seq(V) /\ Len(<<rest>> \o others) = Len(others) + 1
            /\ <<rest>> \o others # <<>> /\ Head(<<rest>> \o others) = rest /\ Tail(<<rest>> \o others) = others
            /\ (<<rest>> \o others)[1] = rest
        BY Zenon, <3>3, PutFirst DEF Put
      <3>5. Len(others) + 1 <= Len(sr.todo) BY <1>h
      <3> QED BY Zenon, <3>1, <3>4, <3>5 DEF V
    <2> QED BY Zenon, <2>1, <2>2
  <1> HIDE DEF todo, latch, thr
  <1>1. /\ sr'.todo = todo /\ sr'.raw = sr.raw /\ sr'.step = sr.step /\ sr'.dlab = sr.dlab /\ sr'.latch = latch
        /\ sr'.thr = thr /\ sr'.asked = sr.asked /\ sr'.line = sr.line /\ sr'.lost = sr.lost
        /\ sr'.inits = sr.inits /\ sr'.report = sr.report /\ sr'.torn = sr.torn /\ sr'.halted = sr.halted
    BY <1>a, <1>e DEF SrTypes
  <1>2. SrTypes' BY Zenon, <1>a, <1>e, <1>o, <1>l, <1>r DEF SrTypes
  <1>3. SrShape'
    <2>1. sr.report = <<>> => Len(todo) <= 1
      <3>1. Len(todo) \in Nat BY <1>o
      <3>2. sr.report = <<>> => Len(sr.todo) <= 1 BY Zenon, <1>a DEF SrShape
      <3> QED BY <1>o, <1>h, <3>1, <3>2
    <2>2. ~sr.halted BY Zenon, <1>a, <1>g DEF SrShape
    <2> QED BY Zenon, <1>a, <1>d, <1>g, <1>l, <1>r, <1>1, <2>1, <2>2 DEF SrShape
  <1>4. Losses'
    <2>1. sr.inits # 0 /\ sr'.step \notin 1 .. 6 /\ (sr.lost = 0 \/ sr.lost <= sr.inits - 1)
      <3>1. sr'.step = 0 BY Zenon, <1>1, <1>g
      <3>2. 0 \notin 1 .. 6 OBVIOUS
      <3> QED BY Zenon, <1>a, <1>g, <3>1, <3>2 DEF Losses
    <2> QED BY Zenon, <1>1, <2>1 DEF Losses
  <1>f. ASSUME NEW x \in Seq(Char), ~sr.dlab
        PROVE  (sr.line \o sr.thr) \o (<<c>> \o x) = (sr'.line \o sr'.thr) \o x
    <2>1. sr.line \o <<>> = sr.line BY Zenon, <1>t, ConcatEmptySeq
    <2>2. Joined(sr.line, <<c>>, x) BY Zenon, <1>t, <1>c, <1>f, Joining
    <2> QED BY Zenon, <1>g, <1>f, <1>r, <1>1, <2>1, <2>2 DEF Joined
  <1>5. Printing'
    <2> SUFFICES ASSUME sr.report = <<>> PROVE (sr'.line \o sr'.thr) \o Coming(sr'.todo, sr'.raw) = sr'.asked
      BY Zenon, <1>1 DEF Printing
    <2>1. ~sr.dlab /\ Len(sr.todo) <= 1 BY Zenon, <1>a, <1>d DEF SrShape
    <2>2. Coming(sr.todo, sr.raw) = <<c>> \o Plain(rest) BY Zenon, <1>g, <1>h, <1>w DEF Coming
    <2>3. Coming(todo, sr.raw) = Plain(rest)
      <3>1. CASE rest = <<>>
        <4>1. Len(others) = 0
          <5> DEFINE m == Len(sr.todo)
          <5>1. m \in Nat \ {0} /\ m <= 1 /\ Len(others) = m - 1 BY Zenon, <1>h, <2>1
          <5> HIDE DEF m
          <5> QED BY <5>1
        <4>2. others = <<>>
          <5>1. 0 \notin Nat \ {0} OBVIOUS
          <5> QED BY Zenon, <1>h, <4>1, <5>1, EmptySeq
        <4>3. todo = <<>> BY Zenon, <3>1, <4>2 DEF todo
        <4> QED BY Zenon, <1>n, <3>1, <4>3 DEF Coming
      <3>2. CASE rest # <<>> BY Zenon, <1>o, <3>2 DEF Coming
      <3> QED BY Zenon, <3>1, <3>2
    <2>4. (sr.line \o sr.thr) \o (<<c>> \o Plain(rest)) = sr.asked BY Zenon, <1>a, <2>2 DEF Printing
    <2>5. (sr.line \o sr.thr) \o (<<c>> \o Plain(rest)) = (sr'.line \o sr'.thr) \o Plain(rest)
      BY Zenon, <1>f, <1>p, <2>1
    <2> HIDE DEF Plain
    <2> QED BY Zenon, <1>1, <2>3, <2>4, <2>5
  <1>6. Reporting'
    <2> SUFFICES ASSUME sr.report # <<>>, ~sr.torn
                 PROVE  EndsIn((sr'.line \o sr'.thr) \o AllBytes(sr'.todo), sr'.report)
      BY Zenon, <1>1 DEF Reporting
    <2>1. ~sr.dlab /\ ~sr.raw BY Zenon, <1>a, <1>d DEF SrShape
    <2>2. sr.todo \in Seq(Seq(Char)) /\ todo \in Seq(Seq(Char)) /\ others \in Seq(Seq(Char))
      BY Zenon, <1>t, <1>o, <1>h, NonemptyTexts
    <2>3. AllBytes(sr.todo) = Bytes(text) \o AllBytes(others) BY Zenon, <1>g, <2>2, AllStep DEF text, others
    <2>4. Bytes(text) = <<c>> \o Bytes(rest) BY Zenon, <1>w, <2>1
    <2>5. Bytes(rest) \in Seq(Char) BY Zenon, <1>w, BytesType
    <2>6. AllBytes(others) \in Seq(Char) /\ AllBytes(todo) \in Seq(Char) BY Zenon, <2>2, AllBytesType
    <2>7. AllBytes(todo) = Bytes(rest) \o AllBytes(others)
      <3>1. CASE rest = <<>>
        <4>1. Bytes(rest) = <<>> BY Zenon, <3>1, BytesOfNothing
        <4>2. <<>> \o AllBytes(others) = AllBytes(others) BY Zenon, <2>6, ConcatEmptySeq
        <4> QED BY Zenon, <3>1, <4>1, <4>2 DEF todo
      <3>2. CASE rest # <<>> BY Zenon, <1>o, <2>2, <3>2, AllStep
      <3> QED BY Zenon, <3>1, <3>2
    <2>8. Joined(<<c>>, Bytes(rest), AllBytes(others)) BY Zenon, <1>c, <2>5, <2>6, Joining
    <2>9. AllBytes(sr.todo) = <<c>> \o AllBytes(todo) BY Zenon, <2>3, <2>4, <2>7, <2>8 DEF Joined
    <2>10. (sr.line \o sr.thr) \o AllBytes(sr.todo) = (sr'.line \o sr'.thr) \o AllBytes(todo)
      BY Zenon, <1>f, <2>1, <2>6, <2>9
    <2>11. EndsIn((sr.line \o sr.thr) \o AllBytes(sr.todo), sr.report) BY Zenon, <1>a DEF Reporting
    <2> QED BY Zenon, <1>1, <2>10, <2>11
  <1> QED BY Zenon, <1>2, <1>3, <1>4, <1>5, <1>6 DEF SrInv

LEMMA ThreeTexts == ASSUME NEW V, NEW x \in V, NEW y \in V, NEW z \in V PROVE <<x, y, z>> \in Seq(V)
  OBVIOUS

Begins(V, q, r) == q \o r \in Seq(V) /\ q \o r # <<>> /\ Head(q \o r) = Head(q)

LEMMA Beginning == ASSUME NEW V, NEW q \in Seq(V), q # <<>>, NEW r \in Seq(V) PROVE Begins(V, q, r)
  BY DEF Begins

\* A report is made of texts, and it is not empty.
LEMMA ReportTexts ==
  ASSUME NEW cause \in Causes, NEW extra \in Texts, NEW regs \in BOOLEAN
  PROVE  /\ Report(cause, extra, regs) \in Seq(Seq(Char) \ {<<>>})
         /\ AllBytes(Report(cause, extra, regs)) \in Seq(Char) \ {<<>>}
  <1> DEFINE V == Seq(Char) \ {<<>>}
             banner == <<"/", "n", "PANIC", "/", "n">>
             more == IF extra = <<>> THEN <<>> ELSE <<<<"info">>, extra, <<"/", "n">>>>
             state == IF regs THEN [i \in 1 .. 3 |-> <<"regs", "/", "n">>] ELSE <<>>
  <1>1. /\ "/" \in Char /\ "n" \in Char /\ "PANIC" \in Char /\ "info" \in Char /\ "regs" \in Char /\ "halted" \in Char
    BY DEF Char
  <1>2. /\ banner \in V /\ <<"/", "n">> \in V /\ <<"info">> \in V /\ <<"regs", "/", "n">> \in V
        /\ <<"halted", "/", "n">> \in V
    BY <1>1
  <1>3. cause \in V
    <2>1. cause \in Seq(STRING) /\ cause # <<>> BY Zenon, SerialAssumption
    <2> QED BY Zenon, <2>1, StringsAreChars
  <1>4. extra \in Seq(Char) BY Zenon, SerialAssumption, StringsAreChars
  <1>5. more \in Seq(V)
    <2>1. CASE extra = <<>> BY <2>1
    <2>2. CASE extra # <<>>
      <3>1. extra \in V BY Zenon, <1>4, <2>2
      <3> HIDE DEF V
      <3>2. <<<<"info">>, extra, <<"/", "n">>>> \in Seq(V) BY Zenon, <1>2, <3>1, ThreeTexts
      <3> QED BY Zenon, <2>2, <3>2
    <2> QED BY Zenon, <2>1, <2>2
  <1> HIDE DEF V, banner, more
  <1>6. state \in Seq(V)
    <2>1. CASE regs
      <3>1. \A W : \A x \in W : [i \in 1 .. 3 |-> x] \in Seq(W) OBVIOUS
      <3> QED BY Zenon, <1>2, <2>1, <3>1 DEF state
    <2>2. CASE ~regs
      <3>1. <<>> \in Seq(V) OBVIOUS
      <3> QED BY Zenon, <2>2, <3>1
    <2> QED BY Zenon, <2>1, <2>2
  <1> HIDE DEF state
  <1>7. <<banner, cause, <<"/", "n">>>> \in Seq(V) /\ <<<<"halted", "/", "n">>>> \in Seq(V)
    <2>1. <<banner, cause, <<"/", "n">>>> \in Seq(V) BY Zenon, <1>2, <1>3, ThreeTexts
    <2>2. \A W : \A v \in W : <<v>> \in Seq(W) OBVIOUS
    <2> QED BY Zenon, <1>2, <2>1, <2>2
  <1> DEFINE first == <<banner, cause, <<"/", "n">>>>
             last == <<<<"halted", "/", "n">>>>
  <1>8. Report(cause, extra, regs) = ((first \o more) \o state) \o last
    BY Zenon DEF Report, banner, more, state
  <1>9. first # <<>> /\ Head(first) = banner OBVIOUS
  <1>10. first \in Seq(V) /\ last \in Seq(V) BY Zenon, <1>7
  <1> HIDE DEF first, last
  <1>11. /\ ((first \o more) \o state) \o last \in Seq(V)
         /\ ((first \o more) \o state) \o last # <<>>
         /\ Head(((first \o more) \o state) \o last) = banner
    <2>1. Begins(V, first, more) BY Zenon, <1>5, <1>9, <1>10, Beginning
    <2>2. Begins(V, first \o more, state) BY Zenon, <1>6, <2>1, Beginning DEF Begins
    <2>3. Begins(V, (first \o more) \o state, last) BY Zenon, <1>10, <2>2, Beginning DEF Begins
    <2> QED BY Zenon, <1>9, <2>1, <2>2, <2>3 DEF Begins
  <1> DEFINE r == Report(cause, extra, regs)
  <1>12. r \in Seq(V) /\ r # <<>> /\ Head(r) = banner BY Zenon, <1>8, <1>11
  <1> HIDE DEF r
  <1>13. r \in Seq(Seq(Char)) BY Zenon, <1>12, NonemptyTexts DEF V
  <1>14. Tail(r) \in Seq(Seq(Char)) BY <1>12, <1>13
  <1>15. AllBytes(r) = Bytes(banner) \o AllBytes(Tail(r)) BY Zenon, <1>12, <1>13, AllStep
  <1>16. AllBytes(r) \in Seq(Char) /\ AllBytes(Tail(r)) \in Seq(Char) BY Zenon, <1>13, <1>14, AllBytesType
  <1>17. banner \in Seq(Char) /\ banner # <<>> BY Zenon, <1>2 DEF V
  <1>18. Bytes(banner) \in Seq(Char) /\ Bytes(banner) # <<>>
    <2>1. Left(banner) \in Seq(Char) /\ Escape(banner, 1) \in Char BY Zenon, <1>17, LeftProperties
    <2>2. Bytes(Left(banner)) \in Seq(Char) BY Zenon, <2>1, BytesType
    <2>3. Put(Char, Escape(banner, 1), Bytes(Left(banner))) BY Zenon, <2>1, <2>2, PutFirst
    <2>4. Bytes(banner) = <<Escape(banner, 1)>> \o Bytes(Left(banner)) BY Zenon, <1>17, BytesStep
    <2> QED BY Zenon, <2>3, <2>4 DEF Put
  <1>19. Begins(Char, Bytes(banner), AllBytes(Tail(r))) BY Zenon, <1>16, <1>18, Beginning
  <1>20. AllBytes(r) # <<>> BY Zenon, <1>15, <1>19 DEF Begins
  <1> QED BY Zenon, <1>12, <1>16, <1>20 DEF V, r

LEMMA PanicKeeps ==
  ASSUME NEW cause \in Causes, NEW extra \in Texts, NEW regs \in BOOLEAN
  PROVE  SrInv /\ Panic(cause, extra, regs) => SrInv'
  <1> SUFFICES ASSUME SrInv, Panic(cause, extra, regs) PROVE SrInv' OBVIOUS
  <1>a. SrTypes /\ SrShape /\ Losses /\ Printing /\ Reporting BY Zenon DEF SrInv
  <1>t. sr.line \in Seq(Char) /\ sr.thr \in Seq(Char) /\ sr.inits \in Nat /\ sr.step \in 0 .. 7
    BY Zenon, <1>a, SrFields
  <1> DEFINE r == Report(cause, extra, regs)
             said == AllBytes(r)
             torn == sr.step # 0
  <1>r. r \in Seq(Seq(Char) \ {<<>>}) /\ said \in Seq(Char) /\ said # <<>> BY Zenon, ReportTexts
  <1>b. torn \in BOOLEAN /\ FALSE \in BOOLEAN /\ 0 \in 0 .. 7 /\ <<>> \in Seq(Char) OBVIOUS
  <1>e. /\ sr.report = <<>> /\ sr.inits > 0
        /\ sr' = [sr EXCEPT !.todo = r, !.raw = FALSE, !.torn = torn, !.step = 0, !.report = said, !.asked = <<>>]
    BY Zenon DEF Panic
  <1>k. sr.dlab => torn BY <1>a, <1>e DEF SrShape
  <1> HIDE DEF r, said, torn
  <1>1. /\ sr'.todo = r /\ sr'.raw = FALSE /\ sr'.step = 0 /\ sr'.dlab = sr.dlab /\ sr'.latch = sr.latch
        /\ sr'.thr = sr.thr /\ sr'.line = sr.line /\ sr'.lost = sr.lost
        /\ sr'.inits = sr.inits /\ sr'.report = said /\ sr'.torn = torn /\ sr'.halted = sr.halted
    BY <1>a, <1>e DEF SrTypes
  <1>2. SrTypes' BY Zenon, <1>a, <1>e, <1>r, <1>b DEF SrTypes
  <1>3. SrShape'
    <2>1. ~sr.halted /\ sr.latch # "bad" BY Zenon, <1>a, <1>e DEF SrShape
    <2> QED BY Zenon, <1>a, <1>k, <1>r, <1>1, <2>1 DEF SrShape
  <1>4. Losses'
    <2>1. sr.inits # 0 /\ 0 \notin 1 .. 6 BY <1>t, <1>e
    <2> QED BY Zenon, <1>a, <1>1, <2>1 DEF Losses
  <1>5. Printing' BY Zenon, <1>1, <1>r DEF Printing
  <1>6. Reporting'
    <2>1. sr.line \o sr.thr \in Seq(Char) BY Zenon, <1>t, ConcatType
    <2>2. EndsIn((sr.line \o sr.thr) \o said, said) BY Zenon, <2>1 DEF EndsIn
    <2> QED BY Zenon, <1>1, <2>2 DEF Reporting, said
  <1> QED BY Zenon, <1>2, <1>3, <1>4, <1>5, <1>6 DEF SrInv

LEMMA SrNextInv == SrInv /\ [SrNext]_sr => SrInv'
  <1> SUFFICES ASSUME SrInv, [SrNext]_sr PROVE SrInv' OBVIOUS
  <1>1. CASE UNCHANGED sr
    BY Zenon, <1>1 DEF SrInv, SrTypes, SrShape, Losses, Printing, Reporting
  <1>2. CASE \E t \in Texts, raw \in BOOLEAN : Call(t, raw) BY Zenon, <1>2, CallKeeps
  <1>3. CASE \E c \in Causes, x \in Texts, regs \in BOOLEAN : Panic(c, x, regs) BY Zenon, <1>3, PanicKeeps
  <1> QED
    BY Zenon, <1>1, <1>2, <1>3, StartInitKeeps, SerialInitKeeps, SerialWriteKeeps, HaltKeeps, UartSendsKeeps
       DEF SrNext, Printer

LEMMA SrAlways == Spec => []SrInv
  <1>1. Init => SrInit BY Zenon DEF Init
  <1> QED BY <1>1, SrInitInv, SrNextInv, EachDriverSteps, PTL DEF Spec

\* For any texts: before a panic every byte that was asked for is printed once,
\* in order, but for the one byte each later serial_init may clear; a panic's
\* report is on the line as a whole when the processor halts; and no byte runs
\* into the divisor latch (serial.h:12-49, panic.c).
THEOREM SerialIsFaithful == Spec => []SerialFaithful
  <1>1. SrInv => SerialFaithful
    <2> SUFFICES ASSUME SrInv PROVE SerialFaithful OBVIOUS
    <2>a. SrTypes /\ SrShape /\ Losses /\ Printing /\ Reporting BY Zenon DEF SrInv
    <2>t. sr.line \in Seq(Char) /\ sr.thr \in Seq(Char) /\ sr.report \in Seq(Char) /\ sr.lost \in Nat /\ sr.inits \in Nat
      BY Zenon, <2>a, SrFields
    <2>1. PrintsWhatIsAsked
      <3>1. sr.lost < sr.inits \/ sr.lost = 0 BY <2>a, <2>t DEF Losses
      <3> QED BY Zenon, <2>a, <3>1 DEF PrintsWhatIsAsked, Printing, Coming
    <2>2. ReportIsWhole
      <3> SUFFICES ASSUME sr.halted, ~sr.torn
                   PROVE  /\ Len(sr.report) <= Len(sr.line \o sr.thr)
                          /\ SubSeq(sr.line \o sr.thr, Len(sr.line \o sr.thr) - Len(sr.report) + 1,
                                    Len(sr.line \o sr.thr)) = sr.report
        BY Zenon DEF ReportIsWhole
      <3>1. sr.todo = <<>> /\ sr.report # <<>> BY Zenon, <2>a DEF SrShape
      <3>2. sr.line \o sr.thr \in Seq(Char) BY Zenon, <2>t, ConcatType
      <3>3. (sr.line \o sr.thr) \o <<>> = sr.line \o sr.thr BY Zenon, <3>2, ConcatEmptySeq
      <3>4. EndsIn(sr.line \o sr.thr, sr.report) BY Zenon, <2>a, <3>1, <3>3, AllOfNothing DEF Reporting
      <3>5. PICK before \in Seq(Char) : sr.line \o sr.thr = before \o sr.report BY Zenon, <3>4 DEF EndsIn
      <3> DEFINE rep == sr.report
                 out == before \o rep
      <3>6. rep \in Seq(Char) BY Zenon, <2>t
      <3> HIDE DEF rep
      <3>7. Len(rep) <= Len(out) BY <3>6
      <3>8. SubSeq(out, Len(out) - Len(rep) + 1, Len(out)) = rep BY Zenon, <3>6, PartsOfConcat
      <3> QED BY Zenon, <3>5, <3>7, <3>8 DEF rep
    <2>3. DivisorKept BY Zenon, <2>a DEF DivisorKept, SrShape
    <2> QED BY Zenon, <2>1, <2>2, <2>3 DEF SerialFaithful
  <1> QED BY <1>1, SrAlways, PTL
=============================================================================
