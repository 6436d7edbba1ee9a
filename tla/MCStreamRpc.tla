---------------------------- MODULE MCStreamRpc ----------------------------
(* StreamRpc for TLC.  The streams of the .cfg files: calls and replies that  *)
(* fit, more than the buffer holds; a break, a packet that is too short, one  *)
(* that is too large, calls that are refused, a garbled header.               *)
EXTENDS StreamRpc

Pkt(n, k) == [len |-> n, kind |-> k]

MixedStreams ==
    {<<Pkt(2, "call"), Pkt(3, "a"), Pkt(2, "call"), Pkt(2, "b"), Pkt(3, "call")>>,
     <<Pkt(2, "call"), Pkt(2, "unavail"), Pkt(3, "call"), Pkt(0, "break"), Pkt(2, "call")>>,
     <<Pkt(2, "a"), Pkt(2, "call"), Pkt(1, "short"), Pkt(2, "call")>>,
     <<Pkt(2, "call"), Pkt(2, "garbled"), Pkt(2, "call"), Pkt(6, "large")>>}
=============================================================================
