--------------------------- MODULE MCReplyPackets ---------------------------
(* The reply path for TLC: the queue of replies (UdpReply) and the packets *)
(* that carry them (RouterPacket).  UdpReply sees of a packet only whether *)
(* it names a peer, so one run checks both: part says which one moves.     *)
EXTENDS MCUdpReply, RouterPacket

MCDatagramSizes == 0..MAX_PAYLOAD_SIZE
MCFieldValues   == -1..(MAX_PAYLOAD_SIZE + 2)

VARIABLE part

MCInit == part \in {"queue", "packets"} /\ Init /\ PacketInit

MCNext ==
  /\ UNCHANGED part
  /\ \/ part = "queue" /\ Next /\ UNCHANGED packetVars
     \/ part = "packets" /\ PacketNext /\ UNCHANGED vars

MCSpec == MCInit /\ [][MCNext]_<<vars, packetVars, part>> /\ Fairness
=============================================================================
