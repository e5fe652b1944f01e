------------------------------- MODULE MCTcp -------------------------------
(* Frames with and without payload, one of them shorter than its headers;  *)
(* payloads that fit the caller's buffer and that do not.                  *)
EXTENDS Tcp

Frame(flags, s, total) == [flags |-> flags, seq |-> s, total |-> total]
\* 7 is not the same number read backwards; the successor of 8 wraps.
MCPeerFrames ==
    {Frame({"SYN", "ACK"}, 7, 1), Frame({"FIN"}, 8, 1),
     Frame({"ACK"}, 8, 0), Frame({"ACK"}, 8, 2), Frame({"ACK"}, 8, 3)}
MCFaultSets == {{}, {"lose"}, {"dup", "swap"}}
=============================================================================
