---------------------------- MODULE RouterSession ----------------------------
(***************************************************************************)
(* The forward path of the router: a datagram received by UdpRelayServer   *)
(* is given by SessionManager to the RouterSession of its peer, which      *)
(* resolves the F1 server, connects to it, writes its queue of packets and *)
(* reads the replies.                                                      *)
(*                                                                         *)
(* All handlers run on the one thread that calls io_service::run, so a     *)
(* handler is one atomic step.  An asynchronous operation is initiated (it *)
(* is in pending), the system completes it (a Complete action moves it to  *)
(* the back of ready, the io_service queue) and later its handler runs     *)
(* from the front of ready.  Removals of sessions are posted to the same   *)
(* queue.  The result of an operation is chosen when its handler runs:     *)
(* nothing looks at it earlier.                                            *)
(*                                                                         *)
(* Left out: what a reply does once decoded (module UdpReply) and the      *)
(* bytes of a packet; a packet is the number of the datagram it carries.   *)
(***************************************************************************)
EXTENDS Integers, Sequences

CONSTANTS
  Peers,          \* addresses of udp peers (AdrTuple values)
  NoPeer,         \* the address of a default-constructed endpoint
  MaxDatagrams,   \* bound: datagrams received, hence sessions created
  MaxEndpoints,   \* bound: endpoints the F1 server name resolves to
  ReceiveErrors   \* whether async_receive_from may report an error

ASSUME ConstantsAssumption ==
  /\ NoPeer \notin Peers
  /\ MaxDatagrams \in Nat \ {0}
  /\ MaxEndpoints \in Nat \ {0}
  /\ ReceiveErrors \in BOOLEAN

SessionId == 1..MaxDatagrams   \* RouterSession objects, in creation order
NoSession == 0
Packet    == 1..MaxDatagrams

LaneOp == {"resolve", "connect", "write"}   \* what moves a packet towards F1
ReadOp == {"header", "payload"}             \* what reads a reply from F1
Op     == LaneOp \union ReadOp

\* A handler that is ready to run; s is NoSession for the udp receive handler.
Handler == [h : Op \union {"recv", "remove"}, s : SessionId \union {NoSession}]

VARIABLES
  m_udpSessions,     \* SessionManager: peer -> its session, or NoSession
  created,           \* number of RouterSession objects constructed so far
  m_udpTuple,        \* session -> address of its peer
  is_open,           \* session -> m_socket.is_open()
  endpoints,         \* session -> resolver results not tried yet
  m_udpPacketQueue,  \* session -> packets to write to F1
  wbuf,              \* session -> packet whose bytes async_write was given
  m_fromTcpPacket,   \* session -> payload length of the reply being read
  pending,           \* session -> operation -> initiated, not completed
  ready,             \* the io_service queue of handlers to run
  receiving,         \* an async_receive_from is outstanding
  m_remoteEndpoint,  \* sender of the last datagram received
  arrived,           \* number of datagrams received
  accepted,          \* history: packets added to the queue of a session
  delivered,         \* history: packets a session wrote to F1
  closes,            \* history: calls of close_session, per session
  deaf               \* history: sessions that stopped reading replies

tableVars   == <<m_udpSessions, created, m_udpTuple>>
socketVars  == <<is_open, endpoints>>
queueVars   == <<m_udpPacketQueue, wbuf, accepted, delivered>>
receiveVars == <<receiving, m_remoteEndpoint, arrived>>
vars == <<tableVars, socketVars, queueVars, m_fromTcpPacket, pending, ready,
          receiveVars, closes, deaf>>

TypeOK ==
  /\ m_udpSessions \in [Peers -> SessionId \union {NoSession}]
  /\ created \in 0..MaxDatagrams
  /\ m_udpTuple \in [SessionId -> Peers \union {NoPeer}]
  /\ is_open \in [SessionId -> BOOLEAN]
  /\ endpoints \in [SessionId -> 0..(MaxEndpoints - 1)]
  /\ m_udpPacketQueue \in [SessionId -> Seq(Packet)]
  /\ wbuf \in [SessionId -> Packet \union {0}]
  /\ m_fromTcpPacket \in [SessionId -> {"clear", "zero", "length"}]
  /\ pending \in [SessionId -> [Op -> Nat]]
  /\ ready \in Seq(Handler)
  /\ receiving \in BOOLEAN
  /\ m_remoteEndpoint \in Peers \union {NoPeer}
  /\ arrived \in 0..MaxDatagrams
  /\ accepted \in [SessionId -> Seq(Packet)]
  /\ delivered \in [SessionId -> Seq(Packet)]
  /\ closes \in [SessionId -> Nat]
  /\ deaf \in [SessionId -> BOOLEAN]

\* UdpRelayServer::start_receive has been called, nothing has arrived.
Init ==
  /\ m_udpSessions = [p \in Peers |-> NoSession]
  /\ created = 0
  /\ m_udpTuple = [s \in SessionId |-> NoPeer]
  /\ is_open = [s \in SessionId |-> FALSE]
  /\ endpoints = [s \in SessionId |-> 0]
  /\ m_udpPacketQueue = [s \in SessionId |-> << >>]
  /\ wbuf = [s \in SessionId |-> 0]
  /\ m_fromTcpPacket = [s \in SessionId |-> "clear"]
  /\ pending = [s \in SessionId |-> [op \in Op |-> 0]]
  /\ ready = << >>
  /\ receiving = TRUE
  /\ m_remoteEndpoint = NoPeer
  /\ arrived = 0
  /\ accepted = [s \in SessionId |-> << >>]
  /\ delivered = [s \in SessionId |-> << >>]
  /\ closes = [s \in SessionId |-> 0]
  /\ deaf = [s \in SessionId |-> FALSE]

-----------------------------------------------------------------------------
(* Helpers of the handlers.  Those that initiate an operation return the   *)
(* new value of pending, close_session that of ready.                      *)

HandlerOf(h, s) == [h |-> h, s |-> s]

\* The io thread runs this handler now.
Runs(h, s) == ready # << >> /\ Head(ready) = HandlerOf(h, s)

Initiate(pend, s, op) == [pend EXCEPT ![s][op] = @ + 1]

start(pend, s) == Initiate(pend, s, "resolve")

\* Fault: the read is not started.
start_read_from_tcp_Forgotten(pend, s) == pend

start_read_from_tcp(pend, s) == Initiate(pend, s, "header")

\* Fault: an open socket is taken to be one that is being written to.
deliver_to_tcp_peer_OnlyStarts(pend, s, queue) ==
  IF ~is_open[s] THEN start(pend, s) ELSE pend

\* A write hands the front of the queue to async_write: see SendBuffer.
deliver_to_tcp_peer(pend, s, queue) ==
  IF ~is_open[s] THEN start(pend, s)
  ELSE IF queue # << >> THEN Initiate(pend, s, "write")
  ELSE pend

\* Fault: back() for front().
SendBuffer_Back(s, queue) ==
  IF is_open[s] /\ queue # << >> THEN [wbuf EXCEPT ![s] = queue[Len(queue)]]
  ELSE wbuf

SendBuffer(s, queue) ==
  IF is_open[s] /\ queue # << >> THEN [wbuf EXCEPT ![s] = Head(queue)]
  ELSE wbuf

\* Fault: the removal is not posted.
close_session_NotPosted(rdy, s) == rdy

close_session(rdy, s) == Append(rdy, HandlerOf("remove", s))

\* Fault: the session found is not erased.
remove_session_Keeps(p) == UNCHANGED m_udpSessions

remove_session(p) ==
  m_udpSessions' = [q \in Peers |-> IF q = p THEN NoSession
                                    ELSE m_udpSessions[q]]

\* Fault: the delivery is started whether or not one is in progress.
add_router_packet_NoTest(s, d) ==
  LET queue == Append(m_udpPacketQueue[s], d) IN
  /\ UNCHANGED delivered
  /\ m_udpPacketQueue' = [m_udpPacketQueue EXCEPT ![s] = queue]
  /\ accepted' = [accepted EXCEPT ![s] = Append(@, d)]
  /\ pending' = deliver_to_tcp_peer(pending, s, queue)
  /\ wbuf' = SendBuffer(s, queue)

\* Fault: push_front for push_back.
add_router_packet_PushFront(s, d) ==
  LET queue == <<d>> \o m_udpPacketQueue[s] IN
  /\ UNCHANGED delivered
  /\ m_udpPacketQueue' = [m_udpPacketQueue EXCEPT ![s] = queue]
  /\ accepted' = [accepted EXCEPT ![s] = Append(@, d)]
  /\ IF m_udpPacketQueue[s] = << >>
     THEN /\ pending' = deliver_to_tcp_peer(pending, s, queue)
          /\ wbuf' = SendBuffer(s, queue)
     ELSE UNCHANGED <<pending, wbuf>>

add_router_packet(s, d) ==
  LET queue == Append(m_udpPacketQueue[s], d) IN
  /\ UNCHANGED delivered
  /\ m_udpPacketQueue' = [m_udpPacketQueue EXCEPT ![s] = queue]
  /\ accepted' = [accepted EXCEPT ![s] = Append(@, d)]
  /\ IF m_udpPacketQueue[s] = << >>
     THEN /\ pending' = deliver_to_tcp_peer(pending, s, queue)
          /\ wbuf' = SendBuffer(s, queue)
     ELSE UNCHANGED <<pending, wbuf>>

\* Fault: the comparison of addresses never holds.
SessionsOf_NeverEqual(p) == {}

\* The search of deliver_from_udp_peer: by the address each session holds.
SessionsOf(p) ==
  {s \in SessionId : m_udpTuple[s] = p /\ \E q \in Peers : m_udpSessions[q] = s}

\* Fault: set_adr_tuple is not called on the new session.
add_session_NoTuple(s, p) ==
  /\ UNCHANGED m_udpTuple
  /\ m_udpSessions' = [m_udpSessions EXCEPT ![p] = s]

add_session(s, p) ==
  /\ m_udpTuple' = [m_udpTuple EXCEPT ![s] = p]
  /\ m_udpSessions' = [m_udpSessions EXCEPT ![p] = s]

deliver_from_udp_peer(p, d) ==
  \/ /\ SessionsOf(p) = {}
     /\ created' = created + 1
     /\ add_session(created + 1, p)
     /\ add_router_packet(created + 1, d)
  \/ /\ \E s \in SessionsOf(p) : add_router_packet(s, d)
     /\ UNCHANGED tableVars

-----------------------------------------------------------------------------
(* The environment: the system completes an operation.                     *)

CompleteReceive ==
  /\ receiving
  /\ arrived < MaxDatagrams \/ ReceiveErrors
  /\ receiving' = FALSE
  /\ ready' = Append(ready, HandlerOf("recv", NoSession))
  /\ UNCHANGED <<tableVars, socketVars, queueVars, m_fromTcpPacket, pending,
                 m_remoteEndpoint, arrived, closes, deaf>>

Complete(s, op) ==
  /\ pending[s][op] > 0
  /\ pending' = [pending EXCEPT ![s][op] = @ - 1]
  /\ ready' = Append(ready, HandlerOf(op, s))
  /\ UNCHANGED <<tableVars, socketVars, queueVars, m_fromTcpPacket,
                 receiveVars, closes, deaf>>

-----------------------------------------------------------------------------
(* The handlers.                                                           *)

\* A datagram of peer p, or an error: then m_remoteEndpoint still holds the
\* sender of the previous datagram, and it is its session that is removed.
handle_receive ==
  /\ Runs("recv", NoSession)
  /\ \/ /\ arrived < MaxDatagrams
        /\ arrived' = arrived + 1
        /\ \E p \in Peers : /\ m_remoteEndpoint' = p
                           /\ deliver_from_udp_peer(p, arrived + 1)
     \/ /\ ReceiveErrors
        /\ remove_session(m_remoteEndpoint)
        /\ UNCHANGED <<created, m_udpTuple, queueVars, pending,
                       m_remoteEndpoint, arrived>>
  /\ ready' = Tail(ready)
  /\ receiving' = TRUE
  /\ UNCHANGED <<socketVars, m_fromTcpPacket, closes, deaf>>

\* async_connect opens the socket first; when it cannot (no descriptor is
\* left) the socket stays closed and the operation completes with an error.
async_connect(s, rest) ==
  /\ endpoints' = [endpoints EXCEPT ![s] = rest]
  /\ \E opened \in BOOLEAN : is_open' = [is_open EXCEPT ![s] = opened]
  /\ pending' = Initiate(pending, s, "connect")
  /\ ready' = Tail(ready)
  /\ UNCHANGED closes

CloseSession(s) ==
  /\ ready' = close_session(Tail(ready), s)
  /\ closes' = [closes EXCEPT ![s] = @ + 1]

handle_resolve(s) ==
  /\ Runs("resolve", s)
  /\ \/ \E n \in 1..MaxEndpoints : async_connect(s, n - 1)
     \/ /\ CloseSession(s)
        /\ UNCHANGED <<socketVars, pending>>
  /\ UNCHANGED <<tableVars, queueVars, m_fromTcpPacket, receiveVars, deaf>>

\* Connected, or an error with and without an endpoint left to try.
handle_connection(s) ==
  /\ Runs("connect", s)
  /\ \/ /\ is_open[s]
        /\ pending' = start_read_from_tcp(
                        deliver_to_tcp_peer(pending, s, m_udpPacketQueue[s]), s)
        /\ wbuf' = SendBuffer(s, m_udpPacketQueue[s])
        /\ ready' = Tail(ready)
        /\ UNCHANGED <<socketVars, closes>>
     \/ /\ endpoints[s] > 0
        /\ async_connect(s, endpoints[s] - 1)
        /\ UNCHANGED wbuf
     \/ /\ endpoints[s] = 0
        /\ CloseSession(s)
        /\ UNCHANGED <<socketVars, wbuf, pending>>
  /\ UNCHANGED <<tableVars, m_udpPacketQueue, accepted, delivered,
                 m_fromTcpPacket, receiveVars, deaf>>

\* Written: F1 was sent the buffer async_write holds, the queue is popped and
\* the next packet written.  With an error the packet stays in the queue.
handle_deliver_tcp(s) ==
  /\ Runs("write", s)
  /\ \/ LET rest == Tail(m_udpPacketQueue[s]) IN
        /\ delivered' = [delivered EXCEPT ![s] = Append(@, wbuf[s])]
        /\ m_udpPacketQueue' = [m_udpPacketQueue EXCEPT ![s] = rest]
        /\ pending' = IF rest # << >> THEN deliver_to_tcp_peer(pending, s, rest)
                      ELSE pending
        /\ wbuf' = SendBuffer(s, rest)
        /\ ready' = Tail(ready)
        /\ UNCHANGED closes
     \/ /\ CloseSession(s)
        /\ UNCHANGED <<m_udpPacketQueue, pending, wbuf, delivered>>
  /\ UNCHANGED <<tableVars, socketVars, accepted, m_fromTcpPacket, receiveVars,
                 deaf>>

\* A length up to MAX_PAYLOAD_SIZE (zero among them), or a length above it or
\* the end of the connection: the session is closed.
handle_read_header(s) ==
  /\ Runs("header", s)
  /\ \/ /\ \E length \in {"zero", "length"} :
             m_fromTcpPacket' = [m_fromTcpPacket EXCEPT ![s] = length]
        /\ pending' = Initiate(pending, s, "payload")
        /\ ready' = Tail(ready)
        /\ UNCHANGED closes
     \/ /\ CloseSession(s)
        /\ UNCHANGED <<m_fromTcpPacket, pending>>
  /\ UNCHANGED <<tableVars, socketVars, queueVars, receiveVars, deaf>>

\* A read of zero bytes succeeds at once and closes the session.  Otherwise
\* a payload that names a peer is handed on and the next header is read; one
\* whose peer length is wrong neither closes the session nor reads on; the end
\* of the connection closes the session, twice when no byte was read.
handle_read_payload(s) ==
  /\ Runs("payload", s)
  /\ \/ /\ m_fromTcpPacket[s] = "zero"
        /\ m_fromTcpPacket' = [m_fromTcpPacket EXCEPT ![s] = "clear"]
        /\ CloseSession(s)
        /\ UNCHANGED <<pending, deaf>>
     \/ /\ m_fromTcpPacket[s] = "length"
        /\ m_fromTcpPacket' = [m_fromTcpPacket EXCEPT ![s] = "clear"]
        /\ \/ /\ pending' = start_read_from_tcp(pending, s)
              /\ UNCHANGED deaf
           \/ /\ deaf' = [deaf EXCEPT ![s] = TRUE]
              /\ UNCHANGED pending
        /\ ready' = Tail(ready)
        /\ UNCHANGED closes
     \/ /\ m_fromTcpPacket[s] = "length"
        /\ \/ CloseSession(s)
           \/ /\ ready' = close_session(close_session(Tail(ready), s), s)
              /\ closes' = [closes EXCEPT ![s] = @ + 2]
        /\ UNCHANGED <<m_fromTcpPacket, pending, deaf>>
  /\ UNCHANGED <<tableVars, socketVars, queueVars, receiveVars>>

\* The removal close_session posted: by address, not by session.
handle_connection_failed(s) ==
  /\ Runs("remove", s)
  /\ remove_session(m_udpTuple[s])
  /\ ready' = Tail(ready)
  /\ UNCHANGED <<created, m_udpTuple, socketVars, queueVars, m_fromTcpPacket,
                 pending, receiveVars, closes, deaf>>

-----------------------------------------------------------------------------
RunHandler ==
  \/ handle_receive
  \/ \E s \in SessionId :
       \/ handle_resolve(s)
       \/ handle_connection(s)
       \/ handle_deliver_tcp(s)
       \/ handle_read_header(s)
       \/ handle_read_payload(s)
       \/ handle_connection_failed(s)

Environment ==
  \/ CompleteReceive
  \/ \E s \in SessionId, op \in Op : Complete(s, op)

Next == RunHandler \/ Environment

Spec == Init /\ [][Next]_vars

\* The io thread keeps running handlers; the system keeps completing what
\* moves packets towards F1.  Nothing is assumed of datagrams and of replies.
Fairness ==
  /\ WF_vars(RunHandler)
  /\ \A s \in SessionId, op \in LaneOp : WF_vars(Complete(s, op))

FairSpec == Spec /\ Fairness

-----------------------------------------------------------------------------
(* Properties.                                                             *)

\* A queue of handlers holds a completion of one of these operations of s;
\* it holds no two.
Holds(q, s, ops) == \E i \in DOMAIN q : q[i].s = s /\ q[i].h \in ops
Once(q, s, ops) ==
  \A i, j \in DOMAIN q :
    /\ q[i].s = s /\ q[i].h \in ops
    /\ q[j].s = s /\ q[j].h \in ops
    => i = j

InReady(s, ops)   == Holds(ready, s, ops)
IsPending(s, ops) == \E op \in ops : pending[s][op] > 0
Outstanding(s, ops) == IsPending(s, ops) \/ InReady(s, ops)
Mapped(s) == \E p \in Peers : m_udpSessions[p] = s

\* No two of these operations of a session are under way at once.
AtMostOne(s, ops) ==
  /\ \A op \in ops : pending[s][op] <= 1
  /\ \A a, b \in ops : pending[s][a] > 0 /\ pending[s][b] > 0 => a = b
  /\ IsPending(s, ops) => ~InReady(s, ops)
  /\ Once(ready, s, ops)

\* A session resolves, connects or writes, and never does two of these at
\* once: "the queue was empty" (add_router_packet) is a sound test for "no
\* delivery is in progress", so no two async_write interleave their bytes.
SingleWriter == \A s \in SessionId : AtMostOne(s, LaneOp)

\* The bytes async_write was given stay where they are: while a write is
\* under way its packet is the front of the deque, so handle_deliver_tcp
\* pops that packet and never an empty queue.
BufferValid ==
  \A s \in SessionId :
    Outstanding(s, {"write"}) => /\ m_udpPacketQueue[s] # << >>
                                 /\ wbuf[s] = Head(m_udpPacketQueue[s])

\* What a session wrote followed by what it still holds is what it accepted:
\* F1 sees no loss, duplicate or reordering on one connection.
ForwardFIFO ==
  \A s \in SessionId : accepted[s] = delivered[s] \o m_udpPacketQueue[s]

\* A session in the table that holds packets is never stuck: an operation
\* that will move them is under way or the session is about to be removed.
\* add_router_packet starts nothing when the queue is not empty, so a session
\* that broke this would swallow every later datagram of its peer.
NoWedge ==
  \A s \in SessionId :
    /\ Mapped(s)
    /\ m_udpPacketQueue[s] # << >>
    => Outstanding(s, LaneOp) \/ InReady(s, {"remove"})

\* A connected session in the table reads replies with exactly one read,
\* unless it is about to be removed or a payload without a peer stopped it.
ReaderAlive ==
  \A s \in SessionId :
    /\ AtMostOne(s, ReadOp)
    /\ /\ Mapped(s)
       /\ ~Outstanding(s, {"resolve", "connect"})
       /\ ~InReady(s, {"remove"})
       /\ ~deaf[s]
       => Outstanding(s, ReadOp)

\* The parts that make the invariants above inductive.  Sessions are created
\* by datagrams; the table maps a peer to a session that holds its address;
\* a session with nothing to send has no delivery under way.
CreatedByDatagram == created <= arrived
TableConsistent ==
  \A p \in Peers, s \in SessionId :
    m_udpSessions[p] = s => m_udpTuple[s] = p /\ s <= created
LaneHasPacket ==
  \A s \in SessionId :
    /\ Outstanding(s, LaneOp) => m_udpPacketQueue[s] # << >>
    /\ s > created => m_udpPacketQueue[s] = << >>

\* The inductive invariant of the forward path: the sessions in the table
\* hold the addresses they are found under, and every session's queue, its
\* one delivery and the buffer given to async_write agree with each other.
ForwardInv ==
  /\ TypeOK
  /\ CreatedByDatagram
  /\ TableConsistent
  /\ LaneHasPacket
  /\ SingleWriter
  /\ BufferValid
  /\ NoWedge

\* The table only ever gains a session that has just been created, for a peer
\* that had none, and a removed session never comes back: no session is
\* replaced while it serves its peer.
NeverReplaced ==
  [][\A p \in Peers : m_udpSessions'[p] # m_udpSessions[p] =>
       \/ m_udpSessions'[p] = NoSession
       \/ m_udpSessions[p] = NoSession /\ m_udpSessions'[p] = created + 1]_vars

\* A session leaves the table only after it failed itself: the removal that
\* handle_connection_failed carries out is the one of its own session.
LeavesByOwnFailure ==
  [][\A p \in Peers, s \in SessionId :
       m_udpSessions[p] = s /\ m_udpSessions'[p] # s => closes[s] > 0]_vars

\* Every packet a session accepted is written to F1 or its session fails,
\* also when the session is no longer in the table.
EveryPacketDecided ==
  \A s \in SessionId, d \in Packet :
    (\E i \in DOMAIN accepted[s] : accepted[s][i] = d)
      ~> (\/ \E i \in DOMAIN delivered[s] : delivered[s][i] = d
          \/ closes[s] > 0)

\* A session that failed leaves the table for good.
FailedSessionLeaves ==
  \A s \in SessionId : closes[s] > 0 ~> [](~Mapped(s))
=============================================================================
