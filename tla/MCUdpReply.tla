----------------------------- MODULE MCUdpReply -----------------------------
(* UdpReply for TLC: all parameters are given in the configurations.       *)
EXTENDS UdpReply
=============================================================================
