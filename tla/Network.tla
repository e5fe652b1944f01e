------------------------------ MODULE Network ------------------------------
(***************************************************************************)
(* net/network.c: the layer between a protocol and the registered netdev_t *)
(* (net/netdev.h).  The driver is external: it accepts or refuses a frame, *)
(* and hands over, in order, the frames that reached it.                   *)
(***************************************************************************)
EXTENDS Integers, Sequences

CONSTANT FRAMES  \* number of values of the frame counters: 2^32

ASSUME NetworkAssumption == FRAMES \in Nat \ {0}

VARIABLES
    registered,     \* netdev_get_default() returns a device
    g_initialized,
    g_frames_sent, g_frames_received,
    rx              \* frames the driver holds for network_receive_frame

net == <<registered, g_initialized, g_frames_sent, g_frames_received, rx>>

NetInit ==
    /\ registered = FALSE
    /\ g_initialized = FALSE
    /\ g_frames_sent = 0
    /\ g_frames_received = 0
    /\ rx = <<>>

\* netdev_register, the last thing ne2000_probe does.
NetdevRegister ==
    /\ ~registered
    /\ registered' = TRUE
    /\ UNCHANGED <<g_initialized, g_frames_sent, g_frames_received, rx>>

\* network_init: without a device it fails and may be called again.
NetworkInit ==
    /\ ~g_initialized
    /\ g_initialized' = registered
    /\ UNCHANGED <<registered, g_frames_sent, g_frames_received, rx>>

\* network_send_frame returning ret: -1 before network_init, afterwards what
\* the driver says.  Only accepted frames are counted.
NetworkSendFrame(ret) ==
    /\ ret \in IF g_initialized THEN {0, -1} ELSE {-1}
    /\ g_frames_sent' = IF ret = 0 THEN (g_frames_sent + 1) % FRAMES ELSE g_frames_sent
    /\ UNCHANGED <<registered, g_initialized>>

\* Mutant: the driver is not told that the frame was taken.
NetworkReceiveFrame_Peek ==
    /\ g_initialized
    /\ rx # <<>>
    /\ g_frames_received' = (g_frames_received + 1) % FRAMES
    /\ UNCHANGED <<registered, g_initialized, rx>>

\* network_receive_frame when the driver has a frame, Head(rx).
NetworkReceiveFrame ==
    /\ g_initialized
    /\ rx # <<>>
    /\ rx' = Tail(rx)
    /\ g_frames_received' = (g_frames_received + 1) % FRAMES
    /\ UNCHANGED <<registered, g_initialized>>

\* network_on_frame_received, from the interrupt of a driver that has one.
NetworkOnFrameReceived ==
    /\ registered
    /\ g_frames_received' = (g_frames_received + 1) % FRAMES
    /\ UNCHANGED <<registered, g_initialized, g_frames_sent, rx>>
=============================================================================
