----------------------------- MODULE TcpProofs -----------------------------
(***************************************************************************)
(* The counters of net/tcp.c for every width of the sequence numbers, any  *)
(* number of connections, segments and frames, and whatever the network    *)
(* loses, repeats or reorders.                                             *)
(***************************************************************************)
EXTENDS Tcp, SequenceTheorems, TLAPS

-----------------------------------------------------------------------------
(* Arithmetic modulo the width of a counter.                               *)

LEMMA Remainder ==
  ASSUME NEW w \in Nat \ {0}, NEW a \in Int
  PROVE  a % w \in 0 .. w - 1 /\ a \div w \in Int /\ a = w * (a \div w) + (a % w)
  <1>1. a % w \in 0 .. w - 1 OBVIOUS
  <1>2. a \div w \in Int OBVIOUS
  <1>3. a = w * (a \div w) + (a % w) OBVIOUS
  <1> QED BY <1>1, <1>2, <1>3

LEMMA OneRemainder ==
  ASSUME NEW w \in Nat \ {0}, NEW q \in Int, NEW r \in 0 .. w - 1, NEW t \in Int, NEW s \in 0 .. w - 1,
         w * q + r = w * t + s
  PROVE  r = s
  <1>1. w * (q - t) = s - r OBVIOUS
  <1>2. q - t < 1 BY <1>1
  <1>3. q - t > -1 BY <1>1
  <1> QED BY <1>1, <1>2, <1>3

\* A counter that is reduced at every step is the sum reduced once.
LEMMA ModAdd ==
  ASSUME NEW w \in Nat \ {0}, NEW a \in Nat, NEW n \in Nat
  PROVE  ((a % w) + n) % w = (a + n) % w
  <1> DEFINE r == a % w
             q == a \div w
             b == r + n
             s == b % w
             t == b \div w
             u == (a + n) % w
             v == (a + n) \div w
  <1>1. r \in 0 .. w - 1 /\ q \in Int /\ a = w * q + r BY Remainder
  <1> HIDE DEF r, q
  <1>2. b \in Int BY <1>1
  <1>3. s \in 0 .. w - 1 /\ t \in Int /\ b = w * t + s
    <2> HIDE DEF b
    <2> QED BY <1>2, Remainder
  <1>4. u \in 0 .. w - 1 /\ v \in Int /\ a + n = w * v + u
    <2>1. a + n \in Int OBVIOUS
    <2> QED BY ZenonT(60), <2>1, Remainder
  <1> HIDE DEF s, t, u, v
  <1>5. w * (t + q) + s = w * v + u BY <1>1, <1>3, <1>4
  <1>6. t + q \in Int BY <1>1, <1>3
  <1>7. s = u BY ZenonT(60), <1>3, <1>4, <1>5, <1>6, OneRemainder
  <1> QED BY <1>7 DEF s, u, b, r

LEMMA WordType == WORD \in Nat \ {0, 1} /\ FRAMES \in Nat \ {0}
  <1>1. BASE \in Nat /\ BASE >= 2 BY TcpAssumption
  <1>2. BASE * BASE >= 2 /\ BASE * BASE \in Nat BY <1>1
  <1> QED BY <1>2, NetworkAssumption DEF WORD

LEMMA SwapNat == ASSUME NEW n \in 0 .. WORD - 1 PROVE Swap(n) \in Nat
  <1>1. BASE \in Nat /\ BASE >= 2 /\ n \in Nat BY TcpAssumption, WordType
  <1>2. n % BASE \in Nat /\ n \div BASE \in Nat BY <1>1
  <1>3. (n % BASE) * BASE \in Nat BY <1>1, <1>2
  <1> QED BY <1>2, <1>3 DEF Swap

-----------------------------------------------------------------------------
(* What is sent.                                                           *)

\* The connection's own numbers.  SeqFollowsWire needs to know that nothing has
\* been sent before the SYN is answered.
SendInv ==
  /\ state \in {CLOSED, SYN_SENT, ESTABLISHED, CLOSING}
  /\ seq \in 0 .. WORD - 1
  /\ pushed \in Nat
  /\ g_frames_sent \in 0 .. FRAMES - 1
  /\ g_frames_received \in 0 .. FRAMES - 1
  /\ state = SYN_SENT => seq = 1 /\ pushed = 0
  /\ SeqFollowsWire

\* The frame counters under a send and a receive.
LEMMA Counters ==
  ASSUME g_frames_sent \in 0 .. FRAMES - 1, g_frames_received \in 0 .. FRAMES - 1
  PROVE  /\ (g_frames_sent + 1) % FRAMES \in 0 .. FRAMES - 1
         /\ (g_frames_received + 1) % FRAMES \in 0 .. FRAMES - 1
         /\ \A s, ret : Transmit(s, ret) => g_frames_sent' \in 0 .. FRAMES - 1
         /\ NetworkReceiveFrame => g_frames_received' \in 0 .. FRAMES - 1
  <1>1. (g_frames_sent + 1) % FRAMES \in 0 .. FRAMES - 1 BY WordType
  <1>2. (g_frames_received + 1) % FRAMES \in 0 .. FRAMES - 1 BY WordType
  <1> QED BY <1>1, <1>2 DEF Transmit, NetworkSendFrame, NetworkReceiveFrame

LEMMA SendInitInv == Init => SendInv
  BY WordType DEF Init, NetInit, SendInv, SeqFollowsWire, CLOSED, SYN_SENT, ESTABLISHED, CLOSING

LEMMA OnFrameSends ==
  ASSUME SendInv, NEW f, TcpOnFrame(f), pushed' = pushed, NetworkReceiveFrame
  PROVE  SendInv'
  <1>1. g_frames_received' \in 0 .. FRAMES - 1 BY Counters DEF SendInv
  <1>2. CASE UNCHANGED <<state, seq, g_frames_sent>>
    BY <1>1, <1>2 DEF SendInv, SeqFollowsWire
  <1>3. CASE /\ state = SYN_SENT /\ state' = ESTABLISHED /\ seq' = (seq + 1) % WORD
             /\ \E s, ret : Transmit(s, ret)
    <2>1. g_frames_sent' \in 0 .. FRAMES - 1 BY <1>3, Counters DEF SendInv
    <2>2. seq = 1 /\ pushed = 0 BY <1>3 DEF SendInv
    <2>3. seq' = (2 + pushed') % WORD BY <1>3, <2>2
    <2>4. seq' \in 0 .. WORD - 1 BY <1>3, <2>2, WordType
    <2> QED BY <1>1, <1>3, <2>1, <2>2, <2>3, <2>4 DEF SendInv, SeqFollowsWire, SYN_SENT, ESTABLISHED
  <1>4. CASE state' = (IF "FIN" \in f.flags THEN CLOSING ELSE state) /\ UNCHANGED <<seq, g_frames_sent>>
    BY <1>1, <1>4 DEF SendInv, SeqFollowsWire, CLOSING, SYN_SENT, ESTABLISHED
  <1> QED BY <1>2, <1>3, <1>4 DEF TcpOnFrame

LEMMA SendStep ==
  ASSUME SendInv, NEW len \in SendLens, TcpSend(len) PROVE SendInv'
  <1> DEFINE n == IF len > MAX_SEG THEN MAX_SEG ELSE len
  <1>1. n \in Nat BY TcpAssumption
  <1>2. PICK ret \in {0, -1} :
          /\ Transmit(Segment({"ACK", "PSH"}, seq, ack, n), ret)
          /\ pushed' = IF ret = 0 THEN pushed + n ELSE pushed
          /\ seq' = IF ret = 0 THEN (seq + n) % WORD ELSE seq
    BY DEF TcpSend
  <1>3. state = ESTABLISHED /\ state' = state /\ g_frames_received' = g_frames_received BY DEF TcpSend
  <1> HIDE DEF n
  <1>4. g_frames_sent' \in 0 .. FRAMES - 1 BY <1>2, Counters DEF SendInv
  <1>5. seq = (2 + pushed) % WORD /\ pushed \in Nat BY <1>3 DEF SendInv, SeqFollowsWire
  <1>6. CASE ret = 0
    <2>1. 2 + pushed \in Nat /\ (2 + pushed) + n = 2 + (pushed + n) BY <1>1, <1>5
    <2>2. seq' = (2 + pushed') % WORD
      <3>1. WORD \in Nat \ {0} BY WordType
      <3>2. (((2 + pushed) % WORD) + n) % WORD = ((2 + pushed) + n) % WORD BY <1>1, <2>1, <3>1, ModAdd
      <3>3. pushed' = pushed + n /\ seq' = (seq + n) % WORD BY <1>2, <1>6
      <3> QED BY <1>5, <2>1, <3>2, <3>3
    <2>3. seq' \in 0 .. WORD - 1
      <3>1. 2 + pushed' \in Int BY <1>1, <1>2, <1>5
      <3> QED BY <2>2, <3>1, WordType
    <2>4. pushed' \in Nat BY <1>1, <1>2, <1>5, <1>6
    <2> QED BY <1>3, <1>4, <2>2, <2>3, <2>4 DEF SendInv, SeqFollowsWire, SYN_SENT, ESTABLISHED
  <1>7. CASE ret # 0
    BY <1>2, <1>3, <1>4, <1>7 DEF SendInv, SeqFollowsWire
  <1> QED BY <1>6, <1>7

LEMMA SendNextInv == SendInv /\ [Next]_vars => SendInv'
  <1> SUFFICES ASSUME SendInv, [Next]_vars PROVE SendInv'
    OBVIOUS
  <1>1. CASE Layer /\ UNCHANGED <<conn, peer>>
    BY <1>1, Counters DEF Layer, NetdevRegister, NetworkInit, NetworkOnFrameReceived, conn, SendInv, SeqFollowsWire
  <1>2. CASE TcpConnect
    <2>1. PICK ret \in {0, -1} : Transmit(Segment({"SYN"}, 1, 0, 0), ret) BY <1>2 DEF TcpConnect
    <2>2. g_frames_sent' \in 0 .. FRAMES - 1 BY <2>1, Counters DEF SendInv
    <2>3. state' \in {SYN_SENT, CLOSED} /\ seq' = 1 /\ pushed' = 0 /\ g_frames_received' = g_frames_received
      BY <1>2 DEF TcpConnect
    <2> QED BY <2>2, <2>3, WordType DEF SendInv, SeqFollowsWire, SYN_SENT, CLOSED, ESTABLISHED
  <1>3. CASE CallerPoll
    BY <1>3, OnFrameSends DEF CallerPoll
  <1>4. CASE TcpClose
    <2>1. g_frames_sent' \in 0 .. FRAMES - 1 BY <1>4, Counters DEF TcpClose, SendInv
    <2> QED BY <1>4, <2>1 DEF TcpClose, SendInv, SeqFollowsWire, CLOSED, SYN_SENT, ESTABLISHED
  <1>5. CASE \E len \in SendLens : TcpSend(len)
    BY <1>5, SendStep
  <1>6. ASSUME NEW max_len \in MaxLens, TcpRecv(max_len) PROVE SendInv'
    <2>1. g_frames_received' \in 0 .. FRAMES - 1 BY <1>6, Counters DEF TcpRecv, SendInv
    <2> QED BY <1>6, <2>1 DEF TcpRecv, SendInv, SeqFollowsWire, CLOSING, SYN_SENT, ESTABLISHED
  <1>7. CASE \E f \in PeerFrames : PeerSend(f)
    BY <1>7 DEF PeerSend, conn, SendInv, SeqFollowsWire
  <1>8. CASE \E i \in DOMAIN rx : Lose(i) \/ Duplicate(i) \/ Reorder(i)
    BY ZenonT(60), <1>8 DEF Lose, Duplicate, Reorder, Channel, conn, SendInv, SeqFollowsWire
  <1>9. CASE UNCHANGED vars
    BY <1>9 DEF vars, net, conn, SendInv, SeqFollowsWire
  <1> QED BY <1>1, <1>2, <1>3, <1>4, <1>5, <1>6, <1>7, <1>8, <1>9 DEF Next

\* The segments of a connection follow each other without gap or overlap, also
\* past the wrap of the 32-bit counter (tcp.c:107-118, 150-157).
THEOREM SegmentsFollow == Spec => []SeqFollowsWire
  <1>1. SendInv => SeqFollowsWire BY DEF SendInv
  <1> QED BY <1>1, SendInitInv, SendNextInv, PTL DEF Spec

-----------------------------------------------------------------------------
(* What is acknowledged.                                                   *)

\* Frames and buffers stay below the length at which the uint16_t payload_len of
\* a frame shorter than its headers would pass for a payload (tcp.c:130-141).
LengthsFit ==
  /\ \A f \in PeerFrames : f.total < LENS
  /\ \A max_len \in MaxLens : max_len + HDR < LENS

\* A frame whose payload is as long as its IP length says.
Frames ==
  {f \in [flags : {g.flags : g \in PeerFrames}, seq : 0 .. WORD - 1, total : 0 .. LENS - 1, data : Seq(Int)] :
     Len(f.data) = IF f.total > HDR THEN f.total - HDR ELSE 0}

RecvInv ==
  /\ rx \in Seq(Frames)
  /\ stream \in Nat
  /\ ack \in 0 .. WORD - 1
  /\ answer \in 0 .. WORD - 1
  /\ got \in Seq(Int)
  /\ state = SYN_SENT => got = <<>>
  /\ AcksWhatWasGot

LEMMA RecvInitInv == Init => RecvInv
  <1> SUFFICES ASSUME Init PROVE RecvInv
    OBVIOUS
  <1>1. <<>> \in Seq(Frames) /\ <<>> \in Seq(Int) OBVIOUS
  <1>2. 0 \in 0 .. WORD - 1 BY WordType
  <1>3. state = CLOSED BY DEF Init
  <1>4. AcksWhatWasGot /\ state # SYN_SENT BY <1>3 DEF AcksWhatWasGot, CLOSED, SYN_SENT, ESTABLISHED
  <1> QED BY <1>1, <1>2, <1>4 DEF Init, NetInit, RecvInv

\* The payload tcp_recv counts is the payload it copies.
LEMMA AcceptedIs ==
  ASSUME LengthsFit, NEW f \in Frames, NEW max_len \in MaxLens
  PROVE  /\ Accepted(f, max_len).acked \in Nat
         /\ Accepted(f, max_len).copied \in BOOLEAN
         /\ Accepted(f, max_len).copied => Accepted(f, max_len).acked = Len(f.data)
         /\ ~Accepted(f, max_len).copied => Accepted(f, max_len).acked = 0
  <1> DEFINE n == PayloadLen(f)
  <1>1. f.total \in 0 .. LENS - 1 /\ HDR \in Nat /\ LENS \in Nat \ {0} /\ max_len \in Nat
    BY TcpAssumption DEF Frames
  <1>2. max_len + HDR < LENS BY DEF LengthsFit
  <1>3. f.total - HDR \in Int /\ PayloadLen(f) \in 0 .. LENS - 1 BY <1>1 DEF PayloadLen
  <1>4. ASSUME f.total >= HDR PROVE n # 0 /\ n <= max_len => n = Len(f.data)
    <2>1. f.total - HDR \in 0 .. LENS - 1 BY <1>1, <1>4
    <2>2. PayloadLen(f) = f.total - HDR BY <1>1, <2>1 DEF PayloadLen
    <2>3. Len(f.data) = f.total - HDR BY <1>1, <1>4 DEF Frames
    <2> QED BY <2>2, <2>3
  <1>5. ASSUME f.total < HDR PROVE n # 0 /\ n <= max_len => n = Len(f.data)
    <2>1. f.total - HDR + LENS > max_len BY <1>1, <1>2
    <2>2. PayloadLen(f) > max_len
      <3>1. HDR < LENS /\ f.total - HDR + LENS \in 0 .. LENS - 1 BY <1>1, <1>2, <1>5
      <3> DEFINE x == f.total - HDR
      <3>2. x \in Int /\ x < 0 /\ x + LENS \in 0 .. LENS - 1 BY <1>1, <1>5, <3>1
      <3> HIDE DEF x
      <3>3. x % LENS = x + LENS
        <4> DEFINE q == x \div LENS
                   r == x % LENS
        <4>1. r \in 0 .. LENS - 1 /\ q \in Int /\ x = LENS * q + r BY <1>1, <3>2, Remainder
        <4> HIDE DEF q, r
        <4>2. LENS * (q + 1) + r = LENS * 0 + (x + LENS) BY <1>1, <3>2, <4>1
        <4>3. q + 1 \in Int /\ 0 \in Int BY <4>1
        <4>4. r = x + LENS BY <1>1, <3>2, <4>1, <4>2, <4>3, OneRemainder
        <4> QED BY <4>4 DEF r
      <3> QED BY <2>1, <3>3 DEF PayloadLen, x
    <2> QED BY <1>1, <1>3, <2>2
  <1>6. n # 0 /\ n <= max_len => n = Len(f.data) BY <1>1, <1>4, <1>5
  <1>7. /\ Accepted(f, max_len).copied = (n # 0 /\ n <= max_len)
        /\ Accepted(f, max_len).acked = IF n # 0 /\ n <= max_len THEN n ELSE 0
    BY Zenon DEF Accepted
  <1>8. n \in Nat BY <1>1, <1>3
  <1>9. 0 \in Nat OBVIOUS
  <1> HIDE DEF n
  <1> QED BY ZenonT(60), <1>6, <1>7, <1>8, <1>9

LEMMA RxHead ==
  ASSUME rx \in Seq(Frames), rx # <<>>
  PROVE  Head(rx) \in Frames /\ Tail(rx) \in Seq(Frames)
  OBVIOUS

LEMMA OnFrameAcks ==
  ASSUME RecvInv, NetworkReceiveFrame, TcpOnFrame(Head(rx)), UNCHANGED <<got, stream>>
  PROVE  RecvInv'
  <1> DEFINE f == Head(rx)
  <1>1. f \in Frames /\ rx' \in Seq(Frames) BY RxHead DEF RecvInv, NetworkReceiveFrame
  <1>2. f.seq \in 0 .. WORD - 1 BY <1>1 DEF Frames
  <1>3. UNCHANGED <<got, stream>> /\ got \in Seq(Int) /\ stream \in Nat BY DEF RecvInv
  <1> HIDE DEF f
  <1>4. CASE UNCHANGED <<state, ack, answer>>
    BY <1>1, <1>3, <1>4 DEF RecvInv, AcksWhatWasGot
  <1>5. CASE /\ state = SYN_SENT /\ state' = ESTABLISHED
             /\ ack' = (Swap(f.seq) + 1) % WORD /\ answer' = f.seq
    <2>1. got' = <<>> BY <1>3, <1>5 DEF RecvInv
    <2>2. Len(got') = 0 BY <2>1
    <2>3. Swap(f.seq) \in Nat BY <1>2, SwapNat
    <2> DEFINE sw == Swap(f.seq)
    <2>4. ack' \in 0 .. WORD - 1
      <3>1. sw + 1 \in Int BY <2>3
      <3> HIDE DEF sw
      <3>2. (sw + 1) % WORD \in 0 .. WORD - 1 BY <3>1, WordType
      <3> QED BY <1>5, <3>2 DEF sw
    <2>5. sw + 1 + Len(got') = sw + 1
      <3> HIDE DEF sw
      <3>1. sw \in Nat BY <2>3 DEF sw
      <3> QED BY <2>2, <3>1
    <2>6. ack' = (Swap(answer') + 1 + Len(got')) % WORD BY <1>5, <2>5
    <2>7. AcksWhatWasGot' BY <2>6 DEF AcksWhatWasGot, Swap, WORD
    <2> QED BY <1>1, <1>2, <1>3, <1>5, <2>1, <2>4, <2>7 DEF RecvInv
  <1>6. CASE state' \in {CLOSING, state} /\ UNCHANGED <<ack, answer>>
    BY <1>1, <1>3, <1>6 DEF RecvInv, AcksWhatWasGot, CLOSING, SYN_SENT, ESTABLISHED
  <1> QED BY <1>4, <1>5, <1>6 DEF TcpOnFrame, f

LEMMA RecvStep ==
  ASSUME LengthsFit, RecvInv, NEW max_len \in MaxLens, TcpRecv(max_len)
  PROVE  RecvInv'
  <1> DEFINE f == Head(rx)
             a == Accepted(f, max_len)
             b == Swap(answer) + 1 + Len(got)
  <1>1. f \in Frames /\ rx' \in Seq(Frames) BY RxHead DEF RecvInv, NetworkReceiveFrame, TcpRecv
  <1>2. /\ a.acked \in Nat /\ a.copied \in BOOLEAN
        /\ a.copied => a.acked = Len(f.data)
        /\ ~a.copied => a.acked = 0
    BY <1>1, AcceptedIs
  <1>3. /\ state = ESTABLISHED /\ state' \in {CLOSING, state}
        /\ got' = IF a.copied THEN got \o f.data ELSE got
        /\ ack' = (ack + a.acked) % WORD
        /\ UNCHANGED <<answer, stream>>
    BY DEF TcpRecv, peer
  <1>4. f.data \in Seq(Int) BY <1>1 DEF Frames
  <1> HIDE DEF f, a
  <1>5. Swap(answer) \in Nat /\ Len(got) \in Nat BY SwapNat DEF RecvInv
  <1>6. b \in Nat BY <1>5
  <1>7. ack = b % WORD BY <1>3 DEF RecvInv, AcksWhatWasGot
  <1>8. got' \in Seq(Int) /\ Len(got') = Len(got) + a.acked
    <2>1. CASE a.copied
      <3>1. got \in Seq(Int) /\ got' = got \o f.data BY ZenonT(60), <1>3, <2>1 DEF RecvInv
      <3>2. got \o f.data \in Seq(Int) /\ Len(got \o f.data) = Len(got) + Len(f.data)
        BY <1>4, <3>1, ConcatProperties
      <3> QED BY <1>2, <2>1, <3>1, <3>2
    <2>2. CASE ~a.copied
      BY <1>2, <1>3, <1>5, <2>2 DEF RecvInv
    <2> QED BY <1>2, <2>1, <2>2
  <1>9. ack' = (b + a.acked) % WORD
    <2> HIDE DEF b
    <2>1. WORD \in Nat \ {0} BY WordType
    <2>2. ((b % WORD) + a.acked) % WORD = (b + a.acked) % WORD BY ZenonT(60), <1>2, <1>6, <2>1, ModAdd
    <2> QED BY <1>3, <1>7, <2>2
  <1>10. ack' \in 0 .. WORD - 1
    <2>1. b + a.acked \in Int
      <3> HIDE DEF b
      <3> QED BY <1>2, <1>6
    <2> HIDE DEF b
    <2> DEFINE n == b + a.acked
    <2> HIDE DEF n
    <2>2. n % WORD \in 0 .. WORD - 1 BY <2>1, WordType DEF n
    <2> QED BY <1>9, <2>2 DEF n
  <1>11. AcksWhatWasGot'
    <2>1. Swap(answer) + 1 + Len(got) + a.acked = Swap(answer) + 1 + (Len(got) + a.acked)
      <3> DEFINE x == Swap(answer)
                 y == Len(got)
                 z == a.acked
      <3>1. x \in Nat /\ y \in Nat /\ z \in Nat BY <1>2, <1>5
      <3> HIDE DEF x, y, z
      <3>2. x + 1 + y + z = x + 1 + (y + z) BY <3>1
      <3> QED BY <3>2 DEF x, y, z
    <2>2. ack' = (Swap(answer) + 1 + Len(got')) % WORD BY <1>8, <1>9, <2>1
    <2>3. Swap(answer') = Swap(answer) BY <1>3
    <2> QED BY <2>2, <2>3 DEF AcksWhatWasGot, Swap, WORD
  <1> QED BY <1>1, <1>3, <1>8, <1>10, <1>11 DEF RecvInv, CLOSING, SYN_SENT, ESTABLISHED

\* Losing, repeating and swapping frames makes no new ones.
LEMMA ChannelFrames ==
  ASSUME rx \in Seq(Frames), NEW i \in DOMAIN rx, Lose(i) \/ Duplicate(i) \/ Reorder(i)
  PROVE  rx' \in Seq(Frames)
  <1>1. i \in 1 .. Len(rx) /\ Len(rx) \in Nat BY Z3T(60)
  <1>2. CASE Lose(i)
    <2>1. SubSeq(rx, 1, i - 1) \in Seq(Frames) BY <1>1
    <2>2. SubSeq(rx, i + 1, Len(rx)) \in Seq(Frames) BY <1>1
    <2>3. rx' = SubSeq(rx, 1, i - 1) \o SubSeq(rx, i + 1, Len(rx)) BY <1>2 DEF Lose, Channel
    <2> QED BY <2>1, <2>2, <2>3, ConcatProperties
  <1>3. CASE Duplicate(i)
    <2>1. rx[i] \in Frames BY <1>1
    <2> QED BY <1>3, <2>1 DEF Duplicate, Channel
  <1>4. CASE Reorder(i)
    <2>1. i + 1 \in 1 .. Len(rx) BY <1>1, <1>4 DEF Reorder
    <2>2. rx[i] \in Frames /\ rx[i + 1] \in Frames BY <1>1, <2>1
    <2> QED BY <1>1, <1>4, <2>1, <2>2 DEF Reorder, Channel
  <1> QED BY <1>2, <1>3, <1>4

LEMMA PeerFrame ==
  ASSUME LengthsFit, stream \in Nat, NEW f \in PeerFrames
  PROVE  /\ [flags |-> f.flags, seq |-> f.seq, total |-> f.total, data |-> Data(f.total)] \in Frames
         /\ Data(f.total) \in Seq(Int)
         /\ Len(Data(f.total)) \in Nat
         /\ Len(Data(f.total)) = IF f.total > HDR THEN f.total - HDR ELSE 0
         /\ \A k \in 1 .. Len(Data(f.total)) : Data(f.total)[k] = stream + k
  <1>1. f.seq \in 0 .. WORD - 1 /\ f.total \in Nat /\ HDR \in Nat /\ LENS \in Nat BY TcpAssumption
  <1>2. f.total \in 0 .. LENS - 1 BY <1>1 DEF LengthsFit
  <1> DEFINE m == IF f.total > HDR THEN f.total - HDR ELSE 0
  <1>3. m \in Nat BY <1>1
  <1>4. Data(f.total) = [k \in 1 .. m |-> stream + k] BY DEF Data
  <1> HIDE DEF m
  <1>5. Data(f.total) \in Seq(Int) /\ Len(Data(f.total)) = m BY <1>3, <1>4
  <1>6. f.flags \in {g.flags : g \in PeerFrames} OBVIOUS
  <1>7. [flags |-> f.flags, seq |-> f.seq, total |-> f.total, data |-> Data(f.total)] \in Frames
    BY <1>1, <1>2, <1>5, <1>6 DEF Frames, m
  <1>8. \A k \in 1 .. m : Data(f.total)[k] = stream + k BY <1>4
  <1> QED BY <1>3, <1>5, <1>7, <1>8 DEF m

LEMMA RecvNextInv == ASSUME LengthsFit PROVE RecvInv /\ [Next]_vars => RecvInv'
  <1> SUFFICES ASSUME RecvInv, [Next]_vars PROVE RecvInv'
    OBVIOUS
  <1>1. CASE Layer /\ UNCHANGED <<conn, peer>>
    BY <1>1 DEF Layer, NetdevRegister, NetworkInit, NetworkOnFrameReceived, conn, peer, RecvInv, AcksWhatWasGot
  <1>2. CASE TcpConnect
    <2>1. state' \in {SYN_SENT, CLOSED} /\ ack' = 0 /\ got' = <<>> /\ answer' = 0
      BY <1>2 DEF TcpConnect
    <2>2. 0 \in 0 .. WORD - 1 /\ <<>> \in Seq(Int) BY WordType
    <2>3. UNCHANGED <<rx, stream>> BY <1>2 DEF TcpConnect, peer
    <2>4. AcksWhatWasGot' BY <2>1 DEF AcksWhatWasGot, CLOSED, SYN_SENT, ESTABLISHED
    <2> QED BY <2>1, <2>2, <2>3, <2>4 DEF RecvInv
  <1>3. CASE CallerPoll
    BY <1>3, OnFrameAcks DEF CallerPoll, peer
  <1>4. CASE TcpClose
    <2>1. state' = CLOSED /\ UNCHANGED <<ack, got, answer, rx, stream>> BY <1>4 DEF TcpClose, peer
    <2> QED BY <2>1 DEF RecvInv, AcksWhatWasGot, CLOSED, SYN_SENT, ESTABLISHED
  <1>5. ASSUME NEW len \in SendLens, TcpSend(len) PROVE RecvInv'
    BY <1>5 DEF TcpSend, peer, RecvInv, AcksWhatWasGot
  <1>6. CASE \E max_len \in MaxLens : TcpRecv(max_len)
    BY <1>6, RecvStep
  <1>7. ASSUME NEW f \in PeerFrames, PeerSend(f) PROVE RecvInv'
    <2>1. rx' \in Seq(Frames) /\ stream' \in Nat
      BY <1>7, PeerFrame DEF PeerSend, RecvInv
    <2>2. UNCHANGED conn BY <1>7 DEF PeerSend
    <2> QED BY <2>1, <2>2 DEF conn, RecvInv, AcksWhatWasGot
  <1>8. ASSUME NEW i \in DOMAIN rx, Lose(i) \/ Duplicate(i) \/ Reorder(i) PROVE RecvInv'
    <2>1. rx' \in Seq(Frames) BY <1>8, ChannelFrames DEF RecvInv
    <2>2. UNCHANGED <<conn, stream>> BY <1>8 DEF Lose, Duplicate, Reorder, Channel
    <2> QED BY <2>1, <2>2 DEF conn, RecvInv, AcksWhatWasGot
  <1>9. CASE UNCHANGED vars
    BY <1>9 DEF vars, net, conn, peer, RecvInv, AcksWhatWasGot
  <1> QED BY <1>1, <1>2, <1>3, <1>4, <1>5, <1>6, <1>7, <1>8, <1>9 DEF Next

\* What tcp.c acknowledges is what its caller got, whatever the network does with
\* the frames: a payload refused, truncated or empty is not counted
\* (tcp.c:120-161).
THEOREM AcksFollow == ASSUME LengthsFit PROVE Spec => []AcksWhatWasGot
  <1>1. RecvInv => AcksWhatWasGot BY DEF RecvInv
  <1> QED BY <1>1, RecvInitInv, RecvNextInv, PTL DEF Spec

\* The counters keep to their types (tcp.c, network.c).
THEOREM TcpTypes == ASSUME LengthsFit PROVE Spec => []TypeOK
  <1>1. SendInv /\ RecvInv => TypeOK BY Zenon DEF SendInv, RecvInv, TypeOK
  <1> QED BY <1>1, SendInitInv, SendNextInv, RecvInitInv, RecvNextInv, PTL DEF Spec

-----------------------------------------------------------------------------
(* The order of what is received.                                          *)

\* The bytes g, followed by those of the frames q, are part of a stream of n
\* bytes, in its order.
Ordered(g, q, n) ==
  /\ \A i, j \in DOMAIN g : i < j => g[i] < g[j]
  /\ \A i \in DOMAIN g : g[i] <= n
  /\ \A j \in DOMAIN q : \A k \in DOMAIN q[j].data : q[j].data[k] <= n
  /\ \A j \in DOMAIN q : \A k, l \in DOMAIN q[j].data : k < l => q[j].data[k] < q[j].data[l]
  /\ \A i, j \in DOMAIN q : i < j =>
       \A k \in DOMAIN q[i].data, l \in DOMAIN q[j].data : q[i].data[k] < q[j].data[l]
  /\ \A i \in DOMAIN g, j \in DOMAIN q : \A k \in DOMAIN q[j].data : g[i] < q[j].data[k]

\* A subsequence of the frames, given by the places e of its members.
LEMMA OrderedSome ==
  ASSUME NEW g \in Seq(Int), NEW q \in Seq(Frames), NEW n \in Nat, Ordered(g, q, n),
         NEW r \in Seq(Frames), NEW e,
         \A i \in DOMAIN r : e[i] \in DOMAIN q /\ r[i] = q[e[i]],
         \A i, j \in DOMAIN r : i < j => e[i] < e[j]
  PROVE  Ordered(g, r, n)
  <1>1. \A j \in DOMAIN r : \A k \in DOMAIN r[j].data : r[j].data[k] <= n BY ZenonT(60) DEF Ordered
  <1>2. \A j \in DOMAIN r : \A k, l \in DOMAIN r[j].data : k < l => r[j].data[k] < r[j].data[l]
    BY ZenonT(60) DEF Ordered
  <1>3. \A i, j \in DOMAIN r : i < j =>
          \A k \in DOMAIN r[i].data, l \in DOMAIN r[j].data : r[i].data[k] < r[j].data[l]
    <2> SUFFICES ASSUME NEW i \in DOMAIN r, NEW j \in DOMAIN r, i < j
                 PROVE  \A k \in DOMAIN r[i].data, l \in DOMAIN r[j].data : r[i].data[k] < r[j].data[l]
      BY ZenonT(60)
    <2>1. e[i] \in DOMAIN q /\ e[j] \in DOMAIN q /\ e[i] < e[j] /\ r[i] = q[e[i]] /\ r[j] = q[e[j]]
      BY Zenon
    <2>2. \A k \in DOMAIN q[e[i]].data, l \in DOMAIN q[e[j]].data : q[e[i]].data[k] < q[e[j]].data[l]
      BY Z3T(60), <2>1 DEF Ordered
    <2> QED BY <2>1, <2>2
  <1>4. \A i \in DOMAIN g, j \in DOMAIN r : \A k \in DOMAIN r[j].data : g[i] < r[j].data[k]
    BY Zenon DEF Ordered
  <1> QED BY Z3T(60), <1>1, <1>2, <1>3, <1>4 DEF Ordered

LEMMA OrderedTail ==
  ASSUME NEW g \in Seq(Int), NEW q \in Seq(Frames), q # <<>>, NEW n \in Nat, Ordered(g, q, n)
  PROVE  Ordered(g, Tail(q), n) /\ Ordered(g \o Head(q).data, Tail(q), n)
  <1> DEFINE t == Tail(q)
             d == Head(q).data
             h == g \o d
             e == [i \in DOMAIN t |-> i + 1]
  <1>1. t \in Seq(Frames) /\ Len(q) \in Nat /\ Len(q) > 0 /\ Len(t) = Len(q) - 1 OBVIOUS
  <1>2. \A i \in DOMAIN t : i + 1 \in DOMAIN q /\ t[i] = q[i + 1] BY <1>1
  <1>3. Ordered(g, t, n)
    <2>1. \A i \in DOMAIN t : e[i] \in DOMAIN q /\ t[i] = q[e[i]] BY <1>2
    <2>2. \A i, j \in DOMAIN t : i < j => e[i] < e[j] BY <1>1
    <2> HIDE DEF t, e
    <2>3. t \in Seq(Frames) BY <1>1 DEF t
    <2> QED BY ZenonT(60), <2>1, <2>2, <2>3, OrderedSome
  <1>4. 1 \in DOMAIN q /\ d = q[1].data /\ q[1] \in Frames BY <1>1
  <1>5. d \in Seq(Int) BY ZenonT(60), <1>4 DEF Frames
  <1>6. \A j \in DOMAIN t : \A k \in DOMAIN d, l \in DOMAIN t[j].data : d[k] < t[j].data[l]
    <2>1. \A j \in DOMAIN t : 1 < j + 1 BY <1>1
    <2> HIDE DEF t, d
    <2> QED BY <1>2, <1>4, <2>1 DEF Ordered
  <1>7. /\ h \in Seq(Int) /\ Len(h) = Len(g) + Len(d) /\ Len(g) \in Nat /\ Len(d) \in Nat
        /\ \A i \in 1 .. Len(h) : h[i] = IF i <= Len(g) THEN g[i] ELSE d[i - Len(g)]
    <2> HIDE DEF d
    <2> QED BY Z3T(60), <1>5, ConcatProperties
  <1>8. \A k \in DOMAIN d : d[k] <= n BY <1>4 DEF Ordered
  <1>9. \A k, l \in DOMAIN d : k < l => d[k] < d[l] BY <1>4 DEF Ordered
  <1>10. \A i \in DOMAIN g, k \in DOMAIN d : g[i] < d[k] BY <1>4 DEF Ordered
  <1>11. DOMAIN g = 1 .. Len(g) /\ DOMAIN d = 1 .. Len(d) /\ DOMAIN h = 1 .. Len(h)
    <2> HIDE DEF d, h
    <2> QED BY Z3T(60), <1>5, <1>7
  <1> HIDE DEF d, h, t
  <1>a. Len(h) = Len(g) + Len(d) /\ Len(g) \in Nat /\ Len(d) \in Nat BY Zenon, <1>7
  <1>12. \A i \in DOMAIN h : (i \in DOMAIN g /\ h[i] = g[i]) \/ (i - Len(g) \in DOMAIN d /\ i > Len(g) /\ h[i] = d[i - Len(g)])
    <2> SUFFICES ASSUME NEW i \in DOMAIN h
                 PROVE (i \in DOMAIN g /\ h[i] = g[i]) \/ (i - Len(g) \in DOMAIN d /\ i > Len(g) /\ h[i] = d[i - Len(g)])
      BY ZenonT(60)
    <2>1. i \in 1 .. Len(h) /\ h[i] = IF i <= Len(g) THEN g[i] ELSE d[i - Len(g)] BY ZenonT(60), <1>7, <1>11
    <2>2. (i <= Len(g) /\ i \in 1 .. Len(g)) \/ (~(i <= Len(g)) /\ i > Len(g) /\ i - Len(g) \in 1 .. Len(d))
      BY <1>a, <2>1
    <2> QED BY ZenonT(60), <1>11, <2>1, <2>2
  <1>13. \A i, j \in DOMAIN h : i < j => h[i] < h[j]
    <2> SUFFICES ASSUME NEW i \in DOMAIN h, NEW j \in DOMAIN h, i < j PROVE h[i] < h[j]
      OBVIOUS
    <2>1. i \in Nat /\ j \in Nat BY <1>a, <1>11
    <2>2. CASE i \in DOMAIN g /\ j \in DOMAIN g
      <3>1. h[i] = g[i] /\ h[j] = g[j]
        <4>1. ~(i > Len(g) /\ i \in 1 .. Len(g)) /\ ~(j > Len(g) /\ j \in 1 .. Len(g)) BY <1>a
        <4> QED BY ZenonT(60), <1>11, <1>12, <2>2, <4>1
      <3>2. g[i] < g[j] BY <2>2 DEF Ordered
      <3> QED BY <3>1, <3>2
    <2>3. CASE i \in DOMAIN g /\ j \notin DOMAIN g
      <3>1. h[i] = g[i] /\ j - Len(g) \in DOMAIN d /\ h[j] = d[j - Len(g)] BY <1>7, <1>11, <1>12, <2>3
      <3>2. g[i] < d[j - Len(g)] BY <1>10, <2>3, <3>1
      <3> QED BY Z3T(60), <3>1, <3>2
    <2>4. CASE i \notin DOMAIN g
      <3>1. i - Len(g) \in DOMAIN d /\ h[i] = d[i - Len(g)] BY <1>12, <2>4
      <3>2. i > Len(g) BY <1>12, <2>4
      <3>3. j \notin DOMAIN g BY <1>7, <1>11, <2>1, <3>2
      <3>4. j - Len(g) \in DOMAIN d /\ h[j] = d[j - Len(g)] BY <1>12, <3>3
      <3>5. i - Len(g) < j - Len(g) BY <1>7, <2>1
      <3>6. d[i - Len(g)] < d[j - Len(g)] BY Z3T(60), <1>9, <3>1, <3>4, <3>5
      <3> QED BY <3>1, <3>4, <3>6
    <2> QED BY <2>2, <2>3, <2>4
  <1>14. \A i \in DOMAIN h : h[i] <= n BY Zenon, <1>8, <1>12 DEF Ordered
  <1>15. \A i \in DOMAIN h, j \in DOMAIN t : \A k \in DOMAIN t[j].data : h[i] < t[j].data[k]
    BY ZenonT(60), <1>3, <1>6, <1>12 DEF Ordered
  <1>16. Ordered(h, t, n) BY Zenon, <1>3, <1>13, <1>14, <1>15 DEF Ordered
  <1> QED BY <1>3, <1>16 DEF h, t, d

LEMMA OrderedAppend ==
  ASSUME NEW g \in Seq(Int), NEW q \in Seq(Frames), NEW n \in Nat, Ordered(g, q, n),
         NEW f \in Frames, \A k \in 1 .. Len(f.data) : f.data[k] = n + k
  PROVE  Ordered(g, Append(q, f), n + Len(f.data))
  <1> DEFINE a == Append(q, f)
             d == f.data
             m == n + Len(d)
  <1>1. d \in Seq(Int) BY DEF Frames
  <1>2. DOMAIN d = 1 .. Len(d) /\ Len(d) \in Nat BY <1>1
  <1>3. Len(q) \in Nat /\ DOMAIN q = 1 .. Len(q) /\ DOMAIN a = 1 .. Len(q) + 1 OBVIOUS
  <1>4. \A i \in DOMAIN a : (i \in DOMAIN q /\ a[i] = q[i]) \/ (i = Len(q) + 1 /\ a[i] = f) BY <1>3
  <1>5. \A k \in DOMAIN d : d[k] = n + k /\ n < d[k] /\ d[k] <= m BY Z3T(60), <1>2
  <1>6. \A i \in DOMAIN g : g[i] \in Int /\ g[i] <= n BY Z3T(60) DEF Ordered
  <1>7. \A j \in DOMAIN q : \A k \in DOMAIN q[j].data : q[j].data[k] \in Int /\ q[j].data[k] <= n
    <2>1. \A j \in DOMAIN q : q[j].data \in Seq(Int) BY <1>3 DEF Frames
    <2>2. \A j \in DOMAIN q : \A k \in DOMAIN q[j].data : q[j].data[k] \in Int BY <2>1
    <2> QED BY Z3T(60), <2>2 DEF Ordered
  <1>8. m \in Nat /\ n <= m BY <1>2
  <1> HIDE DEF a, m
  <1>9. \A i \in DOMAIN g : g[i] <= m BY <1>6, <1>8
  <1>10. \A j \in DOMAIN a : \A k \in DOMAIN a[j].data : a[j].data[k] <= m
    <2>1. \A j \in DOMAIN q : \A k \in DOMAIN q[j].data : q[j].data[k] <= m BY Z3T(60), <1>7, <1>8
    <2> QED BY <1>4, <1>5, <2>1
  <1>11. \A j \in DOMAIN a : \A k, l \in DOMAIN a[j].data : k < l => a[j].data[k] < a[j].data[l]
    <2>1. \A k, l \in DOMAIN d : k < l => d[k] < d[l] BY Z3T(60), <1>2, <1>5
    <2> QED BY ZenonT(60), <1>4, <2>1 DEF Ordered
  <1>12. \A i, j \in DOMAIN a : i < j =>
           \A k \in DOMAIN a[i].data, l \in DOMAIN a[j].data : a[i].data[k] < a[j].data[l]
    <2> SUFFICES ASSUME NEW i \in DOMAIN a, NEW j \in DOMAIN a, i < j,
                        NEW k \in DOMAIN a[i].data, NEW l \in DOMAIN a[j].data
                 PROVE  a[i].data[k] < a[j].data[l]
      OBVIOUS
    <2>0. i # Len(q) + 1 BY <1>3
    <2>1. i \in DOMAIN q /\ a[i] = q[i] BY Zenon, <1>4, <2>0
    <2>2. CASE j \in DOMAIN q /\ a[j] = q[j] BY ZenonT(60), <2>1, <2>2 DEF Ordered
    <2>3. CASE a[j] = f
      <3>1. q[i].data[k] <= n /\ q[i].data[k] \in Int BY <1>7, <2>1
      <3>2. l \in DOMAIN d BY <2>3
      <3>3. l \in Nat /\ d[l] = n + l /\ n < d[l] BY <1>2, <1>5, <3>2
      <3>4. a[j].data[l] = n + l /\ n < n + l BY Zenon, <2>3, <3>3
      <3>5. q[i].data[k] < n + l BY <3>1, <3>3, <3>4
      <3> QED BY ZenonT(60), <2>1, <3>4, <3>5
    <2> QED BY ZenonT(60), <1>4, <2>2, <2>3
  <1>13. \A i \in DOMAIN g, j \in DOMAIN a : \A k \in DOMAIN a[j].data : g[i] < a[j].data[k]
    <2>1. \A i \in DOMAIN g, k \in DOMAIN d : g[i] < d[k] BY Z3T(60), <1>2, <1>5, <1>6
    <2> QED BY ZenonT(60), <1>4, <2>1 DEF Ordered
  <1> QED BY ZenonT(60), <1>9, <1>10, <1>11, <1>12, <1>13 DEF Ordered, a, m

\* A sequence without its i-th member.
LEMMA WithoutOne ==
  ASSUME NEW q \in Seq(Frames), NEW i \in DOMAIN q
  PROVE  LET r == SubSeq(q, 1, i - 1) \o SubSeq(q, i + 1, Len(q))
         IN  /\ r \in Seq(Frames) /\ Len(r) = Len(q) - 1
             /\ \A j \in 1 .. Len(r) : r[j] = IF j < i THEN q[j] ELSE q[j + 1]
  <1> DEFINE r == SubSeq(q, 1, i - 1) \o SubSeq(q, i + 1, Len(q))
  <1>1. i \in 1 .. Len(q) /\ Len(q) \in Nat /\ DOMAIN q = 1 .. Len(q) OBVIOUS
  <1>2. /\ SubSeq(q, 1, i - 1) \in Seq(Frames) /\ Len(SubSeq(q, 1, i - 1)) = i - 1
        /\ \A j \in 1 .. i - 1 : SubSeq(q, 1, i - 1)[j] = q[j]
    BY <1>1
  <1>3. /\ SubSeq(q, i + 1, Len(q)) \in Seq(Frames) /\ Len(SubSeq(q, i + 1, Len(q))) = Len(q) - i
        /\ \A j \in 1 .. Len(q) - i : SubSeq(q, i + 1, Len(q))[j] = q[i + j]
    <2>1. i + 1 \in 1 .. Len(q) + 1 /\ i + 1 \in Int /\ Len(q) \in Int BY <1>1
    <2>2. Len(q) - (i + 1) + 1 = Len(q) - i /\ \A j \in 1 .. Len(q) - i : (i + 1) + j - 1 = i + j BY <1>1
    <2> DEFINE u == SubSeq(q, i + 1, Len(q))
               m == i + 1
               n == Len(q)
    <2>3. \A j \in m .. n : q[j] \in Frames BY <1>1
    <2>4. /\ SubSeq(q, m, n) \in Seq(Frames) /\ Len(SubSeq(q, m, n)) = (IF m <= n THEN n - m + 1 ELSE 0)
          /\ \A j \in 1 .. n - m + 1 : SubSeq(q, m, n)[j] = q[m + j - 1]
      <3>1. m \in Int /\ n \in Int BY <2>1
      <3> HIDE DEF m, n
      <3> QED BY <2>3, <3>1, SubSeqProperties
    <2>5. u \in Seq(Frames) /\ Len(u) = (IF m <= n THEN n - m + 1 ELSE 0) /\ \A j \in 1 .. n - m + 1 : u[j] = q[m + j - 1]
      BY <2>4
    <2> HIDE DEF u
    <2> QED BY <1>1, <2>2, <2>5 DEF u
  <1>4. /\ r \in Seq(Frames) /\ Len(r) = Len(q) - 1
        /\ \A j \in 1 .. Len(r) : r[j] = IF j < i THEN q[j] ELSE q[j + 1]
    <2> DEFINE s == SubSeq(q, 1, i - 1)
               t == SubSeq(q, i + 1, Len(q))
    <2>1. s \in Seq(Frames) /\ t \in Seq(Frames) /\ Len(s) = i - 1 /\ Len(t) = Len(q) - i BY <1>2, <1>3
    <2>2. /\ s \o t \in Seq(Frames) /\ Len(s \o t) = Len(s) + Len(t)
          /\ \A j \in 1 .. Len(s) + Len(t) : (s \o t)[j] = IF j <= Len(s) THEN s[j] ELSE t[j - Len(s)]
      <3> HIDE DEF s, t
      <3> QED BY ZenonT(60), <2>1, ConcatProperties
    <2>3. \A j \in 1 .. i - 1 : s[j] = q[j] BY <1>2
    <2>4. \A j \in 1 .. Len(q) - i : t[j] = q[i + j] BY <1>3
    <2> DEFINE c == s \o t
    <2>a. /\ c \in Seq(Frames) /\ Len(c) = Len(s) + Len(t)
          /\ \A j \in 1 .. Len(s) + Len(t) : c[j] = IF j <= Len(s) THEN s[j] ELSE t[j - Len(s)]
      BY Zenon, <2>2
    <2> HIDE DEF s, t, c
    <2>b. Len(s) + Len(t) = Len(q) - 1 BY <1>1, <2>1
    <2>5. c \in Seq(Frames) /\ Len(c) = Len(q) - 1 BY <2>a, <2>b
    <2>6. \A j \in 1 .. Len(q) - 1 : c[j] = IF j <= i - 1 THEN s[j] ELSE t[j - (i - 1)] BY Zenon, <2>1, <2>a, <2>b
    <2>7. ASSUME NEW j \in 1 .. Len(q) - 1, j < i PROVE c[j] = q[j] BY <1>1, <2>3, <2>6, <2>7
    <2>8. ASSUME NEW j \in 1 .. Len(q) - 1, j >= i PROVE c[j] = q[j + 1]
      <3>1. j - (i - 1) \in 1 .. Len(q) - i /\ i + (j - (i - 1)) = j + 1 BY <1>1, <2>8
      <3>2. t[j - (i - 1)] = q[j + 1] BY <2>4, <3>1
      <3>3. c[j] = t[j - (i - 1)] BY <1>1, <2>6, <2>8
      <3> QED BY <3>2, <3>3
    <2>9. \A j \in 1 .. Len(q) - 1 : j < i \/ j >= i BY <1>1
    <2>10. \A j \in 1 .. Len(q) - 1 : j >= i => ~(j < i) BY <1>1
    <2>11. \A j \in 1 .. Len(q) - 1 : c[j] = IF j < i THEN q[j] ELSE q[j + 1]
      BY <2>7, <2>8, <2>9, <2>10
    <2> QED BY ZenonT(60), <2>5, <2>11 DEF c, s, t
  <1> QED BY ZenonT(60), <1>4

OrderInv == faults \subseteq {"lose"} => Ordered(got, rx, stream)

\* What tcp_recv does to the frames and to the caller's bytes (tcp.c:120-142).
LEMMA RecvEffect ==
  ASSUME NEW max_len, TcpRecv(max_len)
  PROVE  /\ rx # <<>> /\ rx' = Tail(rx) /\ UNCHANGED <<stream, faults>>
         /\ got' = got \/ got' = got \o Head(rx).data
  <1>1. NetworkReceiveFrame /\ UNCHANGED peer BY Zenon DEF TcpRecv
  <1>2. got' = IF Accepted(Head(rx), max_len).copied THEN got \o Head(rx).data ELSE got
    BY Zenon DEF TcpRecv
  <1>3. rx # <<>> /\ rx' = Tail(rx) BY Zenon, <1>1 DEF NetworkReceiveFrame
  <1>4. UNCHANGED <<stream, faults>> BY Zenon, <1>1 DEF peer
  <1> QED BY Zenon, <1>2, <1>3, <1>4

LEMMA OrderNextInv ==
  ASSUME LengthsFit PROVE RecvInv /\ OrderInv /\ [Next]_vars => OrderInv'
  <1> SUFFICES ASSUME RecvInv, OrderInv, [Next]_vars PROVE OrderInv'
    OBVIOUS
  <1>1. rx \in Seq(Frames) /\ got \in Seq(Int) /\ stream \in Nat BY Zenon DEF RecvInv
  <1>a. (faults' \subseteq {"lose"} => Ordered(got', rx', stream')) => OrderInv'
    BY Zenon DEF OrderInv, Ordered
  <1>b. faults \subseteq {"lose"} => Ordered(got, rx, stream) BY Zenon DEF OrderInv
  <1> HIDE DEF OrderInv, Ordered
  <1>2. ASSUME UNCHANGED <<got, rx, stream, faults>> PROVE OrderInv'
    BY Zenon, <1>2, <1>a, <1>b
  <1>3. CASE Layer /\ UNCHANGED <<conn, peer>>
    <2>1. UNCHANGED <<got, rx, stream, faults>>
      BY Zenon, <1>3 DEF Layer, NetdevRegister, NetworkInit, NetworkOnFrameReceived, conn, peer
    <2> QED BY <1>2, <2>1
  <1>4. CASE TcpConnect
    <2>1. got' = <<>> /\ UNCHANGED <<rx, stream, faults>> BY Zenon, <1>4 DEF TcpConnect, peer
    <2>2. faults \subseteq {"lose"} => Ordered(<<>>, rx, stream) BY <1>b DEF Ordered
    <2> QED BY Zenon, <2>1, <2>2, <1>a
  <1>5. CASE CallerPoll
    <2>1. rx # <<>> /\ rx' = Tail(rx) /\ UNCHANGED <<got, stream, faults>>
      BY <1>5 DEF CallerPoll, NetworkReceiveFrame, peer
    <2>2. faults \subseteq {"lose"} => Ordered(got, Tail(rx), stream) BY Zenon, <1>1, <1>b, <2>1, OrderedTail
    <2> QED BY Zenon, <2>1, <2>2, <1>a
  <1>6. CASE TcpClose
    <2>1. UNCHANGED <<got, rx, stream, faults>> BY <1>6 DEF TcpClose, peer
    <2> QED BY <1>2, <2>1
  <1>7. ASSUME NEW len \in SendLens, TcpSend(len) PROVE OrderInv'
    <2>1. UNCHANGED <<got, rx, stream, faults>> BY <1>7 DEF TcpSend, peer
    <2> QED BY <1>2, <2>1
  <1>8. ASSUME NEW max_len \in MaxLens, TcpRecv(max_len) PROVE OrderInv'
    <2>1. /\ rx # <<>> /\ rx' = Tail(rx) /\ UNCHANGED <<stream, faults>>
          /\ got' = got \/ got' = got \o Head(rx).data
      BY ZenonT(60), <1>8, RecvEffect
    <2>2. faults \subseteq {"lose"} =>
            Ordered(got, Tail(rx), stream) /\ Ordered(got \o Head(rx).data, Tail(rx), stream)
      BY ZenonT(60), <1>1, <1>b, <2>1, OrderedTail
    <2>3. CASE got' = got BY Zenon, <2>1, <2>2, <2>3, <1>a
    <2>4. CASE got' = got \o Head(rx).data BY Zenon, <2>1, <2>2, <2>4, <1>a
    <2> QED BY Zenon, <2>1, <2>3, <2>4
  <1>9. ASSUME NEW f \in PeerFrames, PeerSend(f) PROVE OrderInv'
    <2> DEFINE p == [flags |-> f.flags, seq |-> f.seq, total |-> f.total, data |-> Data(f.total)]
    <2>1. /\ rx' = Append(rx, p) /\ stream' = stream + Len(Data(f.total)) /\ UNCHANGED <<got, faults>>
      BY <1>9 DEF PeerSend, conn
    <2>2. /\ p \in Frames /\ p.data = Data(f.total)
          /\ \A k \in 1 .. Len(p.data) : p.data[k] = stream + k
      BY Zenon, <1>1, PeerFrame
    <2> HIDE DEF p
    <2>3. faults \subseteq {"lose"} => Ordered(got, Append(rx, p), stream + Len(p.data))
      BY ZenonT(60), <1>1, <1>b, <2>2, OrderedAppend
    <2> QED BY Zenon, <2>1, <2>2, <2>3, <1>a
  <1>10. ASSUME NEW i \in DOMAIN rx, Lose(i) PROVE OrderInv'
    <2> DEFINE r == SubSeq(rx, 1, i - 1) \o SubSeq(rx, i + 1, Len(rx))
               e == [j \in DOMAIN r |-> IF j < i THEN j ELSE j + 1]
    <2>1. rx' = r /\ UNCHANGED <<got, stream, faults>> BY <1>10 DEF Lose, Channel, conn
    <2>2. i \in 1 .. Len(rx) /\ Len(rx) \in Nat /\ DOMAIN rx = 1 .. Len(rx) BY <1>1
    <2>3. /\ r \in Seq(Frames) /\ Len(r) = Len(rx) - 1
          /\ \A j \in 1 .. Len(r) : r[j] = IF j < i THEN rx[j] ELSE rx[j + 1]
      BY ZenonT(60), <1>1, WithoutOne
    <2> HIDE DEF r
    <2>4. DOMAIN r = 1 .. Len(rx) - 1 BY Z3T(60), <2>3
    <2>5. \A j \in DOMAIN r : e[j] \in DOMAIN rx /\ r[j] = rx[e[j]] BY <2>2, <2>3, <2>4
    <2>6. \A j, k \in DOMAIN r : j < k => e[j] < e[k] BY Z3T(60), <2>2, <2>4
    <2> HIDE DEF e
    <2>7. faults \subseteq {"lose"} => Ordered(got, r, stream)
      BY Zenon, <1>1, <1>b, <2>3, <2>5, <2>6, OrderedSome
    <2> QED BY Zenon, <2>1, <2>7, <1>a
  <1>11. ASSUME NEW i \in DOMAIN rx, Duplicate(i) \/ Reorder(i) PROVE OrderInv'
    <2>1. ~(faults \subseteq {"lose"}) /\ faults' = faults BY <1>11 DEF Duplicate, Reorder, Channel
    <2> QED BY <2>1 DEF OrderInv
  <1>12. CASE UNCHANGED vars
    BY <1>2, <1>12 DEF vars, net, conn, peer
  <1> QED BY <1>3, <1>4, <1>5, <1>6, <1>7, <1>8, <1>9, <1>10, <1>11, <1>12 DEF Next

\* On a network that only loses frames the caller of tcp_recv sees the peer's
\* bytes in order and none twice, over any number of frames and reconnections,
\* although tcp.c never compares a sequence number (tcp.c:120-142).
THEOREM InOrder == ASSUME LengthsFit PROVE Spec => []GotInOrder
  <1>1. Init => OrderInv BY Z3T(60) DEF Init, NetInit, OrderInv, Ordered
  <1>2. RecvInv /\ OrderInv => GotInOrder
    <2> SUFFICES ASSUME RecvInv, OrderInv, faults \subseteq {"lose"}, NEW i \in 1 .. Len(got) - 1
                 PROVE  got[i] < got[i + 1]
      BY DEF GotInOrder
    <2>1. DOMAIN got = 1 .. Len(got) /\ Len(got) \in Nat BY DEF RecvInv
    <2>2. i \in DOMAIN got /\ i + 1 \in DOMAIN got /\ i < i + 1 BY <2>1
    <2> QED BY <2>2 DEF OrderInv, Ordered
  <1> QED BY <1>1, <1>2, RecvInitInv, RecvNextInv, OrderNextInv, PTL DEF Spec
=============================================================================
