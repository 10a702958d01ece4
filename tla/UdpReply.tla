------------------------------ MODULE UdpReply ------------------------------
(***************************************************************************)
(* The reply path of the router: a reply of the F1 server is added to the  *)
(* one queue of SessionManager and sent by UdpRelayServer to the udp peer  *)
(* named in it.  The sessions that read the replies are in RouterSession;  *)
(* here a reply is what handle_read_payload hands on.                      *)
(*                                                                         *)
(* A reply is numbered by its arrival.  async_send_to is given a pointer   *)
(* into the front of the queue; the system reads the bytes when it         *)
(* performs the send, which is at once or when the socket is writable      *)
(* again, and completes sends in the order they were initiated.            *)
(***************************************************************************)
EXTENDS Integers, Sequences

CONSTANTS
  Kinds,        \* the replies F1 sends: see Kind
  MaxReplies,   \* bound: replies decoded
  SendErrors    \* whether async_send_to may report an error

\* "peer": an address and a port; "none": a peer length get_peer_data refuses
\* (zero, or too long for its buffer); "bad": text that is no ip address.
Kind == {"peer", "none", "bad"}

ASSUME ReplyAssumption ==
  /\ Kinds \subseteq Kind
  /\ MaxReplies \in Nat \ {0}
  /\ SendErrors \in BOOLEAN

ReplyId == 1..MaxReplies
Stale   == 0               \* bytes of a packet that has left the queue
Send    == [id : ReplyId, state : {"queued", "sent", "failed"}]

VARIABLES
  m_tcpPacketQueue,  \* SessionManager: replies to send, by number
  sends,             \* async_send_to operations whose handler has not run
  crashed,           \* an exception left a handler: the process is gone
  replies,           \* history: kind of every reply so far
  wire,              \* history: datagrams sent to udp peers
  handed,            \* history: replies given to async_send_to
  overlap,           \* history: a reply met another one in the queue
  skipped,           \* history: a reply without a peer was dropped
  failed             \* history: a send failed

vars == <<m_tcpPacketQueue, sends, crashed, replies, wire, handed, overlap,
          skipped, failed>>

TypeOK ==
  /\ m_tcpPacketQueue \in Seq(ReplyId)
  /\ sends \in Seq(Send)
  /\ crashed \in BOOLEAN
  /\ replies \in Seq(Kinds) /\ Len(replies) <= MaxReplies
  /\ wire \in Seq(ReplyId \union {Stale})
  /\ handed \subseteq ReplyId
  /\ overlap \in BOOLEAN
  /\ skipped \in BOOLEAN
  /\ failed \in BOOLEAN

Init ==
  /\ m_tcpPacketQueue = << >>
  /\ sends = << >>
  /\ crashed = FALSE
  /\ replies = << >>
  /\ wire = << >>
  /\ handed = {}
  /\ overlap = FALSE
  /\ skipped = FALSE
  /\ failed = FALSE

-----------------------------------------------------------------------------
(* The functions a handler calls, on a record of the variables they change *)
(* (and rep, the kinds of the replies).                                    *)

Current(rep) ==
  [queue |-> m_tcpPacketQueue, sends |-> sends, crashed |-> crashed,
   handed |-> handed, skipped |-> skipped, rep |-> rep]

Becomes(st) ==
  /\ m_tcpPacketQueue' = st.queue
  /\ sends' = st.sends
  /\ crashed' = st.crashed
  /\ handed' = st.handed
  /\ skipped' = st.skipped
  /\ replies' = st.rep

pop_tcp_packet(st) == [st EXCEPT !.queue = Tail(@)]

async_send_to(st, id) ==
  [st EXCEPT !.sends = Append(@, [id |-> id, state |-> "queued"]),
             !.handed = @ \union {id}]

\* A reply without a peer is dropped, and nothing is sent in its place;
\* ip::address::from_string throws on an address that is none.
deliver_to_udp_peer(st) ==
  IF st.queue = << >> \/ st.crashed THEN st
  ELSE LET id == Head(st.queue) IN
       CASE st.rep[id] = "peer" -> async_send_to(st, id)
         [] st.rep[id] = "none" -> [pop_tcp_packet(st) EXCEPT !.skipped = TRUE]
         [] st.rep[id] = "bad"  -> [st EXCEPT !.crashed = TRUE]

\* Fault: push_front for push_back.
add_tcp_packet_PushFront(st, id) ==
  LET pushed == [st EXCEPT !.queue = <<id>> \o @] IN
  IF st.queue # << >> THEN deliver_to_udp_peer(pushed) ELSE pushed

\* Fault: the delivery is started whatever the queue held.
add_tcp_packet_NoTest(st, id) ==
  deliver_to_udp_peer([st EXCEPT !.queue = Append(@, id)])

\* bWriteInProgress is TRUE when the queue was empty: the delivery is started
\* here only when another reply is already waiting.
add_tcp_packet(st, id) ==
  LET pushed == [st EXCEPT !.queue = Append(@, id)] IN
  IF st.queue # << >> THEN deliver_to_udp_peer(pushed) ELSE pushed

-----------------------------------------------------------------------------
(* The handlers.                                                           *)

\* Fault: the delivery is left to add_tcp_packet.
handle_read_payload_NoStart(k) ==
  /\ ~crashed
  /\ Len(replies) < MaxReplies
  /\ Becomes(add_tcp_packet(Current(Append(replies, k)), Len(replies) + 1))
  /\ UNCHANGED <<overlap, wire, failed>>

\* A reply of kind k was decoded: it is added to the queue and the delivery is
\* started, once more if add_tcp_packet already did.
handle_read_payload(k) ==
  LET id == Len(replies) + 1
      st == Current(Append(replies, k)) IN
  /\ ~crashed
  /\ Len(replies) < MaxReplies
  /\ Becomes(deliver_to_udp_peer(add_tcp_packet(st, id)))
  /\ overlap' = (overlap \/ m_tcpPacketQueue # << >> \/ sends # << >>)
  /\ UNCHANGED <<wire, failed>>

\* Fault: the next reply is not sent.
handle_deliver_to_udp_peer_NoNext ==
  LET st == [Current(replies) EXCEPT !.sends = Tail(@)] IN
  /\ ~crashed
  /\ sends # << >>
  /\ Head(sends).state = "sent"
  /\ Becomes(IF st.queue = << >> THEN st ELSE pop_tcp_packet(st))
  /\ UNCHANGED <<wire, overlap, failed>>

\* A completed send pops the front of the queue, whichever reply that is, and
\* sends the next one; an error does neither.
handle_deliver_to_udp_peer ==
  LET st == [Current(replies) EXCEPT !.sends = Tail(@)] IN
  /\ ~crashed
  /\ sends # << >>
  /\ Head(sends).state # "queued"
  /\ IF Head(sends).state = "failed"
     THEN Becomes(st) /\ failed' = TRUE
     ELSE /\ Becomes(IF st.queue = << >> THEN st
                     ELSE deliver_to_udp_peer(pop_tcp_packet(st)))
          /\ UNCHANGED failed
  /\ UNCHANGED <<wire, overlap>>

\* The system performs the oldest send that waits.  When its packet has left
\* the queue the pointer dangles and any bytes may be sent.
PerformSend ==
  \E i \in DOMAIN sends :
    LET id == sends[i].id IN
    /\ ~crashed
    /\ sends[i].state = "queued"
    /\ \A j \in 1..(i - 1) : sends[j].state # "queued"
    /\ \/ /\ sends' = [sends EXCEPT ![i].state = "sent"]
          /\ \/ wire' = Append(wire, id)
             \/ /\ \A j \in DOMAIN m_tcpPacketQueue : m_tcpPacketQueue[j] # id
                /\ wire' = Append(wire, Stale)
       \/ /\ SendErrors
          /\ sends' = [sends EXCEPT ![i].state = "failed"]
          /\ UNCHANGED wire
    /\ UNCHANGED <<m_tcpPacketQueue, crashed, replies, handed, overlap,
                   skipped, failed>>

Next ==
  \/ \E k \in Kinds : handle_read_payload(k)
  \/ handle_deliver_to_udp_peer
  \/ PerformSend

Spec == Init /\ [][Next]_vars

\* The io thread runs what is ready and the socket becomes writable again.
\* Nothing is assumed of the replies.
Fairness == WF_vars(handle_deliver_to_udp_peer) /\ WF_vars(PerformSend)

FairSpec == Spec /\ Fairness

-----------------------------------------------------------------------------
(* Properties.                                                             *)

\* Replies are sent in the order in which F1 sent them, whatever happens to
\* some of them: a datagram is never overtaken by an older one.
RepliesInOrder ==
  \A i, j \in DOMAIN wire :
    i < j /\ wire[i] # Stale /\ wire[j] # Stale => wire[i] <= wire[j]

\* Replies that never meet in the queue are each sent once and in order: what
\* was sent and the one being sent are the replies so far.
SerialRepliesExact ==
  ~overlap /\ ~skipped /\ ~failed /\ ~crashed =>
    /\ \A i \in DOMAIN wire : wire[i] = i
    /\ Len(replies) <= Len(wire) + 1
    /\ sends = << >> => Len(wire) = Len(replies)

\* A reply waits in the queue with no send under way only after a send failed
\* or a reply without a peer was dropped.
StallHasCause ==
  m_tcpPacketQueue # << >> /\ sends = << >> /\ ~crashed => failed \/ skipped

\* Every reply that names a peer is handed to async_send_to before it leaves
\* the queue.
NotDropped ==
  \A id \in DOMAIN replies :
    /\ replies[id] = "peer"
    /\ \A j \in DOMAIN m_tcpPacketQueue : m_tcpPacketQueue[j] # id
    => id \in handed

\* A reply that names a peer leaves the queue only after it was handed to
\* async_send_to, until a reply without a peer was dropped.
NotDroppedUnlessSkipped ==
  ~skipped => NotDropped

\* A reply is sent to its peer at most once.
NoDuplicateReply ==
  \A i, j \in DOMAIN wire : wire[i] = wire[j] /\ wire[i] # Stale => i = j

\* Every reply leaves the queue, unless a send fails, a reply without a peer
\* is dropped or the process ends: the completion of a send always leads to
\* the next one.
QueueDrains ==
  \A id \in ReplyId :
    (\E j \in DOMAIN m_tcpPacketQueue : m_tcpPacketQueue[j] = id)
      ~> (\/ \A j \in DOMAIN m_tcpPacketQueue : m_tcpPacketQueue[j] # id
          \/ failed \/ skipped \/ crashed)
=============================================================================
