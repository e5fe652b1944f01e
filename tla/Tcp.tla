-------------------------------- MODULE Tcp --------------------------------
(***************************************************************************)
(* net/tcp.c: one connection over network.c, with a peer that sends what   *)
(* it likes and a network that may lose, duplicate and reorder frames.     *)
(*                                                                         *)
(* Sequence numbers are numbers of two digits to the base BASE, standing   *)
(* for the bytes of uint32_t: build_tcp_segment stores c->seq and c->ack   *)
(* without changing the byte order, so the peer reads them reversed, and   *)
(* tcp_on_frame reads the peer's numbers reversed.                         *)
(***************************************************************************)
EXTENDS Network

CONSTANTS
    BASE,
    HDR,          \* sizeof(ipv4_hdr_t) + sizeof(tcp_hdr_t): 40
    LENS,         \* number of values of a uint16_t length
    MAX_SEG,      \* 1024, what tcp_send puts into one segment
    MaxLens,      \* values of max_len
    SendLens,     \* values of len
    PeerFrames,   \* the peer's frames: [flags, seq, total], total the IP length
    FaultSets,    \* what the network may do: sets of "lose", "dup", "swap"
    MaxFrames, MaxConnects, MaxPushed  \* bounds of the model

WORD == BASE * BASE
Swap(n) == (n % BASE) * BASE + n \div BASE

ASSUME TcpAssumption ==
    /\ BASE \in Nat \ {0, 1}
    /\ HDR \in Nat
    /\ LENS \in Nat \ {0}
    /\ MaxLens \cup SendLens \cup {MAX_SEG} \subseteq Nat
    /\ \A f \in PeerFrames : f.seq \in 0 .. WORD - 1 /\ f.total \in Nat

VARIABLES
    state, seq, ack,   \* the fields of tcp_conn_t
    wire,      \* the last segment the driver accepted
    pushed,    \* payload bytes the driver accepted on this connection
    got,       \* bytes tcp_recv returned on this connection
    answer,    \* sequence number of the frame that established it
    connects,  \* calls of tcp_connect
    stream,    \* bytes the peer has sent
    frames,    \* frames the peer has sent
    faults

conn == <<state, seq, ack, wire, pushed, got, answer, connects>>
peer == <<stream, frames, faults>>
vars == <<net, conn, peer>>

CLOSED == "CLOSED"
SYN_SENT == "SYN_SENT"
ESTABLISHED == "ESTABLISHED"
CLOSING == "CLOSING"

\* build_tcp_segment, as the peer reads it.
Segment(flags, s, a, len) == [flags |-> flags, seq |-> Swap(s), ack |-> Swap(a), len |-> len]
NoSegment == Segment({}, 0, 0, 0)

\* A segment is put on the wire if the driver takes it.
Transmit(segment, ret) ==
    /\ NetworkSendFrame(ret)
    /\ wire' = IF ret = 0 THEN segment ELSE wire

Init ==
    /\ NetInit
    /\ state = CLOSED
    /\ seq = 0
    /\ ack = 0
    /\ wire = NoSegment
    /\ pushed = 0
    /\ got = <<>>
    /\ answer = 0
    /\ connects = 0
    /\ stream = 0
    /\ frames = 0
    /\ faults \in FaultSets

\* tcp_connect, from whatever state the connection is in.
TcpConnect ==
    /\ connects < MaxConnects
    /\ \E ret \in {0, -1} :
          /\ Transmit(Segment({"SYN"}, 1, 0, 0), ret)
          /\ state' = IF ret = 0 THEN SYN_SENT ELSE CLOSED
    /\ seq' = 1
    /\ ack' = 0
    /\ pushed' = 0
    /\ got' = <<>>
    /\ answer' = 0
    /\ connects' = connects + 1
    /\ UNCHANGED <<g_frames_received, rx, peer>>

\* Mutant: a refused segment is counted as sent.
TcpSend_AnyResult(len) ==
    LET n == IF len > MAX_SEG THEN MAX_SEG ELSE len
    IN  /\ state = ESTABLISHED
        /\ pushed + n <= MaxPushed
        /\ \E ret \in {0, -1} :
              /\ Transmit(Segment({"ACK", "PSH"}, seq, ack, n), ret)
              /\ pushed' = IF ret = 0 THEN pushed + n ELSE pushed
        /\ seq' = (seq + n) % WORD
        /\ UNCHANGED <<state, ack, got, answer, connects, g_frames_received, rx, peer>>

\* tcp_send: one segment, however long the data.
TcpSend(len) ==
    LET n == IF len > MAX_SEG THEN MAX_SEG ELSE len
    IN  /\ state = ESTABLISHED
        /\ pushed + n <= MaxPushed
        /\ \E ret \in {0, -1} :
              /\ Transmit(Segment({"ACK", "PSH"}, seq, ack, n), ret)
              /\ pushed' = IF ret = 0 THEN pushed + n ELSE pushed
              /\ seq' = IF ret = 0 THEN (seq + n) % WORD ELSE seq
        /\ UNCHANGED <<state, ack, got, answer, connects, g_frames_received, rx, peer>>

\* Mutant: the first branch waits for a pure ACK only.
Answers_AckOnly(f) == f.flags = {"ACK"}

\* Any frame with SYN or ACK answers the SYN that was sent.
Answers(f) == f.flags \cap {"SYN", "ACK"} # {}

\* tcp_on_frame.  The result of sending the ACK is ignored.
TcpOnFrame(f) ==
    IF f.total < HDR
    THEN UNCHANGED <<state, seq, ack, wire, answer, g_frames_sent>>
    ELSE IF state = SYN_SENT /\ Answers(f)
    THEN /\ ack' = (Swap(f.seq) + 1) % WORD
         /\ seq' = (seq + 1) % WORD
         /\ state' = ESTABLISHED
         /\ answer' = f.seq
         /\ \E ret \in {0, -1} : Transmit(Segment({"ACK"}, seq', ack', 0), ret)
    ELSE /\ state' = IF "FIN" \in f.flags THEN CLOSING ELSE state
         /\ UNCHANGED <<seq, ack, wire, answer, g_frames_sent>>

\* The loop tcp.c:102 asks of the caller of tcp_connect: network_receive_frame
\* and tcp_on_frame until the connection is established.
CallerPoll ==
    /\ state \in {SYN_SENT, CLOSING}
    /\ NetworkReceiveFrame
    /\ TcpOnFrame(Head(rx))
    /\ UNCHANGED <<pushed, got, connects, peer>>

\* The uint16_t payload_len of tcp_recv: a frame shorter than its headers gets
\* a length near the end of the type.
PayloadLen(f) == (f.total - HDR) % LENS

\* Mutant: a payload too long for the buffer is acknowledged all the same.
Accepted_Any(f, max_len) == [copied |-> PayloadLen(f) <= max_len, acked |-> PayloadLen(f)]

\* What tcp_recv does with the payload of f.
Accepted(f, max_len) ==
    LET fits == PayloadLen(f) # 0 /\ PayloadLen(f) <= max_len
    IN  [copied |-> fits, acked |-> IF fits THEN PayloadLen(f) ELSE 0]

\* tcp_recv: the frame is taken from the driver whether or not its payload
\* fits, and its sequence number, ports and addresses are not looked at.
TcpRecv(max_len) ==
    /\ state = ESTABLISHED
    /\ NetworkReceiveFrame
    /\ LET f == Head(rx)
       IN  /\ state' = IF f.total >= HDR /\ "FIN" \in f.flags THEN CLOSING ELSE state
           /\ got' = IF Accepted(f, max_len).copied THEN got \o f.data ELSE got
           /\ ack' = (ack + Accepted(f, max_len).acked) % WORD
    /\ UNCHANGED <<seq, wire, pushed, answer, connects, g_frames_sent, peer>>

\* tcp_close says FIN only on an established connection.
TcpClose ==
    /\ state # CLOSED
    /\ IF state = ESTABLISHED
       THEN \E ret \in {0, -1} : Transmit(Segment({"FIN", "ACK"}, seq, ack, 0), ret)
       ELSE UNCHANGED <<wire, g_frames_sent, registered, g_initialized>>
    /\ state' = CLOSED
    /\ UNCHANGED <<seq, ack, pushed, got, answer, connects, g_frames_received, rx, peer>>

-----------------------------------------------------------------------------
(* The peer and the network.                                               *)

\* The next bytes of the peer's stream, of which a frame of this length has
\* room for total - HDR.
Data(total) == [i \in 1 .. (IF total > HDR THEN total - HDR ELSE 0) |-> stream + i]

PeerSend(f) ==
    /\ registered
    /\ frames < MaxFrames
    /\ frames' = frames + 1
    /\ rx' = Append(rx, [flags |-> f.flags, seq |-> f.seq, total |-> f.total, data |-> Data(f.total)])
    /\ stream' = stream + Len(Data(f.total))
    /\ UNCHANGED <<registered, g_initialized, g_frames_sent, g_frames_received, conn, faults>>

Channel(kind, new, extra) ==
    /\ kind \in faults
    /\ frames + extra <= MaxFrames
    /\ frames' = frames + extra
    /\ rx' = new
    /\ UNCHANGED <<registered, g_initialized, g_frames_sent, g_frames_received, conn, stream, faults>>

Lose(i) == Channel("lose", SubSeq(rx, 1, i - 1) \o SubSeq(rx, i + 1, Len(rx)), 0)
Duplicate(i) == Channel("dup", Append(rx, rx[i]), 1)
Reorder(i) == i < Len(rx) /\ Channel("swap", [rx EXCEPT ![i] = rx[i + 1], ![i + 1] = rx[i]], 0)

Layer == NetdevRegister \/ NetworkInit \/ NetworkOnFrameReceived

Next ==
    \/ Layer /\ UNCHANGED <<conn, peer>>
    \/ TcpConnect \/ CallerPoll \/ TcpClose
    \/ \E len \in SendLens : TcpSend(len)
    \/ \E max_len \in MaxLens : TcpRecv(max_len)
    \/ \E f \in PeerFrames : PeerSend(f)
    \/ \E i \in DOMAIN rx : Lose(i) \/ Duplicate(i) \/ Reorder(i)

Spec == Init /\ [][Next]_vars

\* A caller waiting for its connection keeps polling.
FairSpec == Spec /\ WF_vars(CallerPoll)

-----------------------------------------------------------------------------
(* Properties.                                                             *)

TypeOK ==
    /\ state \in {CLOSED, SYN_SENT, ESTABLISHED, CLOSING}
    /\ seq \in 0 .. WORD - 1
    /\ ack \in 0 .. WORD - 1
    /\ g_frames_sent \in 0 .. FRAMES - 1
    /\ g_frames_received \in 0 .. FRAMES - 1

\* The segments of a connection follow each other without gap or overlap: a
\* segment the driver refused uses up no sequence numbers, and the SYN uses up
\* one once it is answered.
SeqFollowsWire ==
    state = ESTABLISHED => seq = (2 + pushed) % WORD

\* What is acknowledged is what the caller got: the bytes tcp_recv returned,
\* counted from the peer's first sequence number, and no byte of a frame that
\* was too long for the buffer, too short for its headers, or empty.
AcksWhatWasGot ==
    state = ESTABLISHED => ack = (Swap(answer) + 1 + Len(got)) % WORD

\* As long as the network only loses frames, the caller of tcp_recv sees the
\* peer's bytes in the order they were sent, none twice.
GotInOrder ==
    faults \subseteq {"lose"} => \A i \in 1 .. Len(got) - 1 : got[i] < got[i + 1]

AnswerWaits ==
    /\ state = SYN_SENT
    /\ \E i \in DOMAIN rx : rx[i].total >= HDR /\ rx[i].flags \cap {"SYN", "ACK"} # {}

\* A SYN that has been answered does not wait for ever: the frames that arrived
\* before the answer, FINs and truncated ones included, do not keep tcp_on_frame
\* from it.
AnswerEnds ==
    (faults = {} /\ g_initialized /\ AnswerWaits) ~> state # SYN_SENT

\* tcp.c:3 calls this enough for a simple request and response.  The ACK that
\* ends the handshake then acknowledges the peer's SYN: its number, as the peer
\* reads it, is the one after the peer's own.
AcksPeersSyn ==
    wire.flags = {"ACK"} => wire.ack = (answer + 1) % WORD
=============================================================================
