----------------------------- MODULE RouterPacket -----------------------------
(***************************************************************************)
(* The packet exchanged with the F1 server: a header field with the length *)
(* of the payload, a peer field with the length of the peer's address, the *)
(* address and the data.  A packet is built for every datagram and written *)
(* to F1; replies are read into the one m_fromTcpPacket of a session,      *)
(* piece by piece, and copied to the queue of replies.                     *)
(*                                                                         *)
(* A byte of m_payload is the number of the message that wrote it, or Nul. *)
(* The two fields are decimal text: the value that atoi makes of them is   *)
(* given with the read.  Lengths are unsigned and wrap around.             *)
(***************************************************************************)
EXTENDS Integers

CONSTANTS
  Width,             \* bits of a length, 32 in the code
  MAX_PAYLOAD_SIZE,  \* 1024 in the code
  PeerData,          \* the buffer of get_peer_data, 128 in the code
  AdrSizes,          \* lengths of "address:port"
  DatagramSizes,     \* sizes of datagrams, up to NETWOR_BUFFER_SIZE
  FieldValues,       \* what atoi makes of a field F1 sends
  MaxMessages        \* bound: datagrams and replies

Modulus == 2^Width   \* lengths wrap around here

ASSUME PacketAssumption ==
  /\ MAX_PAYLOAD_SIZE \in Nat \ {0}
  /\ Modulus \in Nat /\ Modulus > 2 * (9999 + MAX_PAYLOAD_SIZE)
  /\ PeerData \in Nat
  /\ AdrSizes \subseteq 1..9999       \* encode_header has four digits for it
  /\ DatagramSizes \subseteq 0..MAX_PAYLOAD_SIZE
  /\ FieldValues \subseteq -999..9999
  /\ MaxMessages \in Nat

HEADER_LENGTH == 4
PEER_LENGTH   == 4
BodyAt  == HEADER_LENGTH + PEER_LENGTH
Storage == BodyAt + MAX_PAYLOAD_SIZE     \* size of m_payload
Nul     == 0
None    == -1                            \* a byte never initialised

Unsigned(n) == n % Modulus

VARIABLES
  toTcp,          \* the packet last put in the queue of a session
  m_fromTcp,      \* m_fromTcpPacket of the session that reads
  reply,          \* the packet last put in the queue of replies
  reading,        \* what the session reads next: "header", "payload", or
                  \* "nothing" once it is closed or deaf
  message,        \* number of messages so far
  datagram        \* history: address length and size of the last datagram

packetVars == <<toTcp, m_fromTcp, reply, reading, message, datagram>>

-----------------------------------------------------------------------------
(* The member functions.                                                   *)

clear(pkt) ==
  [m_payloadLength |-> 0, m_peerLength |-> 0,
   m_payload |-> [i \in DOMAIN pkt.m_payload |-> Nul]]

NewPacket ==
  [m_payloadLength |-> 0, m_peerLength |-> 0,
   m_payload |-> [i \in 0..(Storage - 1) |-> Nul]]

\* memcpy of size bytes of message n to place at.  What bytes past the end of
\* m_payload (see Overruns) do to other memory is left out.
Store(pkt, at, size, n) ==
  [pkt EXCEPT !.m_payload =
     [i \in DOMAIN @ |-> IF i \in at..(at + size - 1) THEN n ELSE @[i]]]

\* The copy constructor leaves the bytes it does not copy uninitialised.
copy(pkt) ==
  [pkt EXCEPT !.m_payload =
     [i \in DOMAIN @ |->
        IF pkt.m_payloadLength > 0 /\ i < BodyAt + pkt.m_payloadLength
        THEN @[i] ELSE None]]

data_length(pkt) == Unsigned(HEADER_LENGTH + pkt.m_payloadLength)

\* Fault: the peer field is counted as data.
packet_data_length_WithField(pkt) ==
  Unsigned(pkt.m_payloadLength - pkt.m_peerLength)

packet_data_length(pkt) ==
  Unsigned(pkt.m_payloadLength - pkt.m_peerLength - PEER_LENGTH)

get_packet_data(pkt) == BodyAt + pkt.m_peerLength

get_peer_data(pkt) == pkt.m_peerLength > 0 /\ PeerData > pkt.m_peerLength

set_peer_data(pkt, size, n) ==
  Store([pkt EXCEPT !.m_peerLength = size], BodyAt, size, n)

\* Fault: the peer field is not counted.
set_packet_data_NoField(pkt, size, n) ==
  Store([pkt EXCEPT !.m_payloadLength = Unsigned(size + pkt.m_peerLength)],
        BodyAt + pkt.m_peerLength, size, n)

\* Fault: the address is counted twice.
set_packet_data_PeerTwice(pkt, size, n) ==
  Store([pkt EXCEPT !.m_payloadLength =
           Unsigned(size + 2 * pkt.m_peerLength + PEER_LENGTH)],
        BodyAt + pkt.m_peerLength, size, n)

set_packet_data(pkt, size, n) ==
  Store([pkt EXCEPT !.m_payloadLength =
           Unsigned(size + pkt.m_peerLength + PEER_LENGTH)],
        BodyAt + pkt.m_peerLength, size, n)

\* Lengths below 10000 fill the fields, padded with spaces.
encode_header(pkt, n) ==
  Store(Store(pkt, 0, HEADER_LENGTH, n), HEADER_LENGTH, PEER_LENGTH, n)

decode_header(pkt, value) == [ok |-> Unsigned(value) <= MAX_PAYLOAD_SIZE,
  pkt |-> [pkt EXCEPT !.m_payloadLength =
             IF Unsigned(value) > MAX_PAYLOAD_SIZE THEN 0 ELSE Unsigned(value)]]

decode_peer(pkt, value) == [ok |-> Unsigned(value) <= pkt.m_payloadLength,
  pkt |-> [pkt EXCEPT !.m_peerLength =
             IF Unsigned(value) > pkt.m_payloadLength THEN 0 ELSE Unsigned(value)]]

\* set_packet_data or copy went past the end of m_payload.
Overruns(pkt, size) ==
  \/ get_packet_data(pkt) + size > Storage
  \/ BodyAt + pkt.m_payloadLength > Storage

-----------------------------------------------------------------------------
PacketInit ==
  /\ toTcp = NewPacket
  /\ m_fromTcp = NewPacket
  /\ reply = NewPacket
  /\ reading = "header"
  /\ message = 0
  /\ datagram = [adr |-> 0, size |-> 0, n |-> 0]

\* SessionManager::deliver_from_udp_peer builds the packet, add_router_packet
\* puts a copy of it in the queue.
PrepareDatagram(adr, size) ==
  LET n   == message + 1
      pkt == encode_header(
               set_packet_data(set_peer_data(NewPacket, adr, n), size, n), n) IN
  /\ message < MaxMessages
  /\ message' = n
  /\ toTcp' = copy(pkt)
  /\ datagram' = [adr |-> adr, size |-> size, n |-> n]
  /\ UNCHANGED <<m_fromTcp, reply, reading>>

\* The four bytes of the header were read.
ReadHeader(value) ==
  LET n   == message + 1
      res == decode_header(Store(m_fromTcp, 0, HEADER_LENGTH, n), value) IN
  /\ reading = "header"
  /\ message < MaxMessages
  /\ message' = n
  /\ m_fromTcp' = res.pkt
  /\ reading' = IF res.ok THEN "payload" ELSE "nothing"
  /\ UNCHANGED <<toTcp, reply, datagram>>

\* The payload was read behind the header: its first four bytes, of this reply
\* or left in the packet when the payload is shorter, are the peer field.
ReadPayload(value) ==
  LET got == Store(m_fromTcp, HEADER_LENGTH, m_fromTcp.m_payloadLength,
                   m_fromTcp.m_payload[0])
      res == decode_peer(got, value) IN
  /\ reading = "payload"
  /\ m_fromTcp' = clear(got)
  /\ IF m_fromTcp.m_payloadLength > 0 /\ res.ok
     THEN reply' = copy(res.pkt) /\ reading' = "header"
     ELSE UNCHANGED reply /\ reading' = "nothing"
  /\ UNCHANGED <<toTcp, message, datagram>>

\* The next datagram of the peer makes a new session.
NewSession ==
  /\ reading = "nothing"
  /\ m_fromTcp' = NewPacket
  /\ reading' = "header"
  /\ UNCHANGED <<toTcp, reply, message, datagram>>

PacketNext ==
  \/ \E adr \in AdrSizes, size \in DatagramSizes : PrepareDatagram(adr, size)
  \/ \E value \in FieldValues : ReadHeader(value) \/ ReadPayload(value)
  \/ NewSession

PacketSpec == PacketInit /\ [][PacketNext]_packetVars

-----------------------------------------------------------------------------
(* Properties.                                                             *)

From(pkt, places, senders) ==
  \A i \in places : i \in DOMAIN pkt.m_payload /\ pkt.m_payload[i] \in senders

\* async_write sends F1 the fields, the address and the whole datagram, all
\* of this message, and a reader of the format (decode_header, decode_peer,
\* packet_data_length) finds in them the datagram that was received: the next
\* packet starts where F1 expects it.  Packets decode_header would refuse are
\* the ones that do not fit.
FramesExact ==
  datagram.n > 0 /\ toTcp.m_payloadLength <= MAX_PAYLOAD_SIZE =>
    LET fields == decode_peer(decode_header(toTcp, toTcp.m_payloadLength).pkt,
                              toTcp.m_peerLength) IN
    /\ fields.ok
    /\ packet_data_length(fields.pkt) = datagram.size
    /\ data_length(toTcp) = BodyAt + datagram.adr + datagram.size
    /\ From(toTcp, 0..(data_length(toTcp) - 1), {datagram.n})

\* set_packet_data compares nothing with the size of m_payload.  Building and
\* copying a packet stays inside it as long as address and datagram leave the
\* room of the peer field in MAX_PAYLOAD_SIZE, and so do exactly the packets
\* that decode_header on the other side accepts.
StorageBound ==
  datagram.n > 0 =>
    LET fits == datagram.adr + datagram.size + PEER_LENGTH <= MAX_PAYLOAD_SIZE
    IN  /\ decode_header(toTcp, toTcp.m_payloadLength).ok <=> fits
        /\ ~Overruns(toTcp, datagram.size) <=> fits

\* A reply that leaves room for its peer field is sent to its peer whole, and
\* nothing else is: the address and the bytes given to async_send_to are those
\* F1 sent in this very reply, none of an older one and none past its end.
\* packet_data_length wraps around for a longer peer length, which decode_peer
\* lets through.
BodyWhole ==
  reply.m_payloadLength > 0 =>
    LET length == packet_data_length(reply)
        n      == reply.m_payload[0]
        body   == BodyAt..(data_length(reply) - 1) IN
    /\ length <= MAX_PAYLOAD_SIZE <=>
         reply.m_peerLength + PEER_LENGTH <= reply.m_payloadLength
    /\ length <= MAX_PAYLOAD_SIZE =>
         /\ From(reply, body, {n})
         /\ get_packet_data(reply) + length = data_length(reply)

\* What a reply is shorter than its peer field or its address by is completed
\* by what the packet holds: the end of text, never digits or letters of an
\* earlier reply, and never bytes that copy left uninitialised.
PeerFieldFresh ==
  /\ reply.m_payloadLength > 0 =>
       From(reply, HEADER_LENGTH..(BodyAt - 1), {reply.m_payload[0], Nul})
  /\ get_peer_data(reply) =>
       From(reply, BodyAt..(get_packet_data(reply) - 1), {reply.m_payload[0], Nul})
  /\ reading = "payload" =>
       From(m_fromTcp, HEADER_LENGTH..(Storage - 1), {Nul})

\* A reply reaches the peer it names as F1 sent it, although one packet is
\* reused for all replies of a session and lengths come from the wire.
ReplyWhole == BodyWhole /\ PeerFieldFresh
=============================================================================
