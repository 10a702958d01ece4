------------------------- MODULE SessionTableProofs -------------------------
(***************************************************************************)
(* Proofs about RouterSession, for every set of peers and every bound: the *)
(* invariant ForwardInv is inductive, hence TypeOK, SingleWriter,          *)
(* BufferValid and NoWedge hold in every reachable state; with it          *)
(* ForwardFIFO is inductive, and so is Readers, which gives ReaderAlive.   *)
(*                                                                         *)
(* Proofs about AdrTuple, the key of the session table.  std::map finds a  *)
(* key by a descent that compares few keys with <, findRouterSession by a  *)
(* comparison of every key with ==.  Both find the same session because    *)
(* the keys are strictly sorted (TupleInv), which every insertion and      *)
(* removal keeps since < is a strict total order whose leftover is ==.     *)
(* From there the table implements a dictionary of peers.                  *)
(***************************************************************************)
EXTENDS RouterSession, AdrTuple, SequenceTheorems, WellFoundedInduction, TLAPS

-----------------------------------------------------------------------------
(* Queues of handlers: what taking the first and adding one at the end do  *)
(* to Holds and Once.  The proofs below use only these facts of a queue.   *)

\* Elements of the tail of a sequence and of a sequence with one more element.
LEMMA TailElements ==
  ASSUME NEW S, NEW q \in Seq(S), q # << >>
  PROVE  /\ Tail(q) \in Seq(S)
         /\ Head(q) = q[1]
         /\ Head(q) \in S
         /\ 1 \in DOMAIN q
         /\ \A i \in DOMAIN Tail(q) : i + 1 \in DOMAIN q /\ Tail(q)[i] = q[i + 1]
         /\ \A i \in DOMAIN q : i = 1 \/ (i - 1 \in DOMAIN Tail(q) /\ Tail(q)[i - 1] = q[i])
OBVIOUS

\* A sequence with one more element at its end.
LEMMA AppendElements ==
  ASSUME NEW S, NEW q \in Seq(S), NEW x \in S
  PROVE  /\ Append(q, x) \in Seq(S)
         /\ Append(q, x) # << >>
         /\ DOMAIN Append(q, x) = DOMAIN q \union {Len(q) + 1}
         /\ Len(q) + 1 \notin DOMAIN q
         /\ Append(q, x)[Len(q) + 1] = x
         /\ \A i \in DOMAIN q : Append(q, x)[i] = q[i]
         /\ q # << >> => Head(Append(q, x)) = Head(q)
         /\ q = << >> => Head(Append(q, x)) = x
<1>1. /\ Append(q, x) \in Seq(S) /\ Len(q) \in Nat /\ Len(Append(q, x)) = Len(q) + 1
      /\ DOMAIN q = 1..Len(q) /\ DOMAIN Append(q, x) = 1..(Len(q) + 1)
  OBVIOUS
<1>2. /\ Append(q, x)[Len(q) + 1] = x
      /\ \A i \in DOMAIN q : Append(q, x)[i] = q[i]
  OBVIOUS
<1>3. /\ DOMAIN Append(q, x) = DOMAIN q \union {Len(q) + 1}
      /\ Len(q) + 1 \notin DOMAIN q
  BY <1>1
<1>4. Append(q, x) # << >>
  BY <1>1
<1>5. q # << >> => Head(Append(q, x)) = Head(q)
  <2>1. q # << >> => 1 \in DOMAIN q /\ Head(q) = q[1]
    BY <1>1
  <2>2. Head(Append(q, x)) = Append(q, x)[1]
    BY <1>1, <1>4
  <2> QED  BY <1>2, <2>1, <2>2
<1>6. q = << >> => Head(Append(q, x)) = x
  OBVIOUS
<1> QED  BY <1>1, <1>2, <1>3, <1>4, <1>5, <1>6

\* The handler that runs leaves the queue: the others stay, each once, and
\* no second completion of the same operations is left behind.
LEMMA TailHolds ==
  ASSUME NEW q \in Seq(Handler), q # << >>, NEW s, NEW ops
  PROVE  /\ Holds(Tail(q), s, ops) => Holds(q, s, ops)
         /\ Holds(q, s, ops) => \/ Holds(Tail(q), s, ops)
                                \/ Head(q).s = s /\ Head(q).h \in ops
         /\ Once(q, s, ops) => Once(Tail(q), s, ops)
         /\ Once(q, s, ops) /\ Head(q).s = s /\ Head(q).h \in ops
              => ~Holds(Tail(q), s, ops)
<1>1. Holds(Tail(q), s, ops) => Holds(q, s, ops)
  BY TailElements DEF Holds
<1>2. Holds(q, s, ops) => \/ Holds(Tail(q), s, ops)
                          \/ Head(q).s = s /\ Head(q).h \in ops
  <2> SUFFICES ASSUME NEW i \in DOMAIN q, q[i].s = s, q[i].h \in ops, i # 1
               PROVE  Holds(Tail(q), s, ops)
    BY TailElements DEF Holds
  <2>1. i - 1 \in DOMAIN Tail(q) /\ Tail(q)[i - 1] = q[i]
    BY TailElements
  <2> QED  BY <2>1 DEF Holds
<1>3. Once(q, s, ops) => Once(Tail(q), s, ops)
  <2> SUFFICES ASSUME Once(q, s, ops), NEW i \in DOMAIN Tail(q), NEW j \in DOMAIN Tail(q),
                      Tail(q)[i].s = s, Tail(q)[i].h \in ops,
                      Tail(q)[j].s = s, Tail(q)[j].h \in ops
               PROVE  i = j
    BY DEF Once
  <2>1. /\ i + 1 \in DOMAIN q /\ q[i + 1] = Tail(q)[i]
        /\ j + 1 \in DOMAIN q /\ q[j + 1] = Tail(q)[j]
    BY TailElements
  <2>2. i + 1 = j + 1
    BY <2>1 DEF Once
  <2>3. i \in Int /\ j \in Int
    BY TailElements
  <2> QED  BY <2>2, <2>3
<1>4. Once(q, s, ops) /\ Head(q).s = s /\ Head(q).h \in ops
        => ~Holds(Tail(q), s, ops)
  <2> SUFFICES ASSUME Once(q, s, ops), Head(q).s = s, Head(q).h \in ops,
                      NEW i \in DOMAIN Tail(q),
                      Tail(q)[i].s = s, Tail(q)[i].h \in ops
               PROVE  FALSE
    BY DEF Holds
  <2>1. i \in Nat /\ i > 0
    BY TailElements
  <2>2. i + 1 = 1
    BY TailElements DEF Once
  <2> QED  BY <2>1, <2>2
<1> QED  BY <1>1, <1>2, <1>3, <1>4

\* A completion or a posted removal is added at the end of the queue.
LEMMA AppendHolds ==
  ASSUME NEW q \in Seq(Handler), NEW x \in Handler, NEW s, NEW ops
  PROVE  /\ Holds(Append(q, x), s, ops)
              <=> Holds(q, s, ops) \/ (x.s = s /\ x.h \in ops)
         /\ /\ Once(q, s, ops)
            /\ ~Holds(q, s, ops) \/ ~(x.s = s /\ x.h \in ops)
            => Once(Append(q, x), s, ops)
<1>1. Holds(Append(q, x), s, ops)
        <=> Holds(q, s, ops) \/ (x.s = s /\ x.h \in ops)
  BY AppendElements DEF Holds
<1>2. /\ Once(q, s, ops)
      /\ ~Holds(q, s, ops) \/ ~(x.s = s /\ x.h \in ops)
      => Once(Append(q, x), s, ops)
  BY AppendElements DEF Holds, Once
<1> QED  BY <1>1, <1>2

-----------------------------------------------------------------------------
(* The variables pending and ready in one step.                            *)

PendingType == [SessionId -> [Op -> Nat]]

\* Initiate counts one operation of one session up and changes nothing else.
LEMMA InitiateFacts ==
  ASSUME NEW pend \in PendingType, NEW s \in SessionId, NEW op \in Op
  PROVE  /\ Initiate(pend, s, op) \in PendingType
         /\ Initiate(pend, s, op)[s][op] = pend[s][op] + 1
         /\ \A t \in SessionId, o \in Op :
              t # s \/ o # op => Initiate(pend, s, op)[t][o] = pend[t][o]
BY DEF Initiate, PendingType

\* The operation initiated is the only one of the lane.
LEMMA InitiateAlone ==
  ASSUME NEW pend \in PendingType, NEW s \in SessionId, NEW op \in LaneOp,
         \A o \in LaneOp : pend[s][o] = 0
  PROVE  \A o \in LaneOp : Initiate(pend, s, op)[s][o] = IF o = op THEN 1 ELSE 0
<1>1. LaneOp \subseteq Op
  BY DEF Op
<1>2. Initiate(pend, s, op)[s][op] = 0 + 1
  BY <1>1, InitiateFacts
<1>3. \A o \in LaneOp : o # op => Initiate(pend, s, op)[s][o] = 0
  BY <1>1, InitiateFacts
<1> QED  BY <1>2, <1>3

\* The front of ready is the handler that runs; it leaves the queue.
LEMMA RunFacts ==
  ASSUME TypeOK, NEW h, NEW s, Runs(h, s)
  PROVE  /\ Tail(ready) \in Seq(Handler)
         /\ \A t, ops :
              /\ Holds(Tail(ready), t, ops) => Holds(ready, t, ops)
              /\ Holds(ready, t, ops) => \/ Holds(Tail(ready), t, ops)
                                         \/ t = s /\ h \in ops
              /\ Once(ready, t, ops) => Once(Tail(ready), t, ops)
              /\ Once(ready, t, ops) /\ t = s /\ h \in ops
                   => ~Holds(Tail(ready), t, ops)
              /\ t = s /\ h \in ops => Holds(ready, t, ops)
<1>1. ready \in Seq(Handler) /\ ready # << >> /\ Head(ready).h = h /\ Head(ready).s = s
  BY DEF TypeOK, Runs, HandlerOf
<1>2. Tail(ready) \in Seq(Handler)
  BY <1>1, TailElements
<1>3. ASSUME NEW t, NEW ops
      PROVE  /\ Holds(Tail(ready), t, ops) => Holds(ready, t, ops)
             /\ Holds(ready, t, ops) => \/ Holds(Tail(ready), t, ops)
                                        \/ t = s /\ h \in ops
             /\ Once(ready, t, ops) => Once(Tail(ready), t, ops)
             /\ Once(ready, t, ops) /\ t = s /\ h \in ops
                  => ~Holds(Tail(ready), t, ops)
  BY <1>1, TailHolds
<1>4. ASSUME NEW t, NEW ops, t = s, h \in ops
      PROVE  Holds(ready, t, ops)
  BY <1>1, <1>4, TailElements DEF Holds
<1> QED  BY <1>2, <1>3, <1>4

\* A removal posted by close_session is the only change it makes to a queue.
LEMMA CloseFacts ==
  ASSUME NEW q \in Seq(Handler), NEW s \in SessionId
  PROVE  /\ close_session(q, s) \in Seq(Handler)
         /\ \A t, ops :
              /\ Holds(close_session(q, s), t, ops)
                   <=> Holds(q, t, ops) \/ (t = s /\ "remove" \in ops)
              /\ Once(q, t, ops) /\ "remove" \notin ops
                   => Once(close_session(q, s), t, ops)
<1>1. HandlerOf("remove", s) \in Handler
  BY DEF HandlerOf, Handler, SessionId
<1>2. HandlerOf("remove", s).h = "remove" /\ HandlerOf("remove", s).s = s
  BY DEF HandlerOf
<1>3. close_session(q, s) \in Seq(Handler)
  BY <1>1, AppendElements DEF close_session
<1>4. ASSUME NEW t, NEW ops
      PROVE  /\ Holds(close_session(q, s), t, ops)
                  <=> Holds(q, t, ops) \/ (t = s /\ "remove" \in ops)
             /\ Once(q, t, ops) /\ "remove" \notin ops
                  => Once(close_session(q, s), t, ops)
  BY <1>1, <1>2, AppendHolds DEF close_session
<1> QED  BY <1>3, <1>4

\* The invariant of one session.
SessionInv(t) ==
  /\ AtMostOne(t, LaneOp)
  /\ Outstanding(t, LaneOp) => m_udpPacketQueue[t] # << >>
  /\ Outstanding(t, {"write"}) => wbuf[t] = Head(m_udpPacketQueue[t])
  /\ Mapped(t) /\ m_udpPacketQueue[t] # << >>
       => Outstanding(t, LaneOp) \/ InReady(t, {"remove"})

\* ForwardInv is the invariant of every session and that of the table.
LEMMA ForwardInvParts ==
  ForwardInv <=> /\ TypeOK
                 /\ CreatedByDatagram
                 /\ TableConsistent
                 /\ \A t \in SessionId :
                      t > created => m_udpPacketQueue[t] = << >>
                 /\ \A t \in SessionId : SessionInv(t)
<1>1. \A t : Outstanding(t, {"write"}) => Outstanding(t, LaneOp)
  BY DEF Outstanding, IsPending, InReady, Holds, LaneOp
<1> QED  BY <1>1 DEF ForwardInv, SessionInv, SingleWriter, BufferValid, NoWedge, LaneHasPacket

\* The same for the state after a step.
LEMMA ForwardInvPrime ==
  ASSUME TypeOK', CreatedByDatagram', TableConsistent',
         \A t \in SessionId : t > created' => m_udpPacketQueue'[t] = << >>,
         \A t \in SessionId : SessionInv(t)'
  PROVE  ForwardInv'
<1>1. \A t : Outstanding(t, {"write"})' => Outstanding(t, LaneOp)'
  BY DEF Outstanding, IsPending, InReady, Holds, LaneOp
<1> QED  BY <1>1 DEF ForwardInv, SessionInv, SingleWriter, BufferValid, NoWedge, LaneHasPacket

\* A session that a step leaves alone keeps its invariant.
LEMMA SessionFrame ==
  ASSUME NEW t \in SessionId, SessionInv(t),
         \A op \in LaneOp : pending'[t][op] = pending[t][op],
         m_udpPacketQueue'[t] = m_udpPacketQueue[t],
         wbuf'[t] = wbuf[t],
         Holds(ready', t, LaneOp) <=> Holds(ready, t, LaneOp),
         Holds(ready', t, {"write"}) => Holds(ready, t, {"write"}),
         Once(ready', t, LaneOp),
         Mapped(t)' => Mapped(t),
         Mapped(t)' /\ Holds(ready, t, {"remove"}) => Holds(ready', t, {"remove"})
  PROVE  SessionInv(t)'
<1>1. "write" \in LaneOp
  BY DEF LaneOp
<1>2. IsPending(t, LaneOp)' <=> IsPending(t, LaneOp)
  BY DEF IsPending
<1>3. IsPending(t, {"write"})' <=> IsPending(t, {"write"})
  BY <1>1 DEF IsPending
<1> QED  BY <1>2, <1>3 DEF SessionInv, AtMostOne, Outstanding, InReady

\* Reading, posting and removing leave every delivery as it is: a step that
\* changes no queue, no write buffer and no lane operation keeps ForwardInv
\* when the sessions it loses from ready are only removals of sessions that
\* are then out of the table.
LEMMA ForwardFrame ==
  ASSUME ForwardInv, TypeOK', CreatedByDatagram',
         UNCHANGED <<created, m_udpTuple, m_udpPacketQueue, wbuf>>,
         \A p \in Peers : m_udpSessions'[p] \in {NoSession, m_udpSessions[p]},
         \A t \in SessionId, op \in LaneOp : pending'[t][op] = pending[t][op],
         \A t \in SessionId :
           /\ Holds(ready', t, LaneOp) <=> Holds(ready, t, LaneOp)
           /\ Holds(ready', t, {"write"}) => Holds(ready, t, {"write"})
           /\ Once(ready', t, LaneOp)
           /\ Mapped(t)' /\ Holds(ready, t, {"remove"})
                => Holds(ready', t, {"remove"})
  PROVE  ForwardInv'
<1>1. \A t \in SessionId : Mapped(t)' => Mapped(t)
  BY DEF Mapped, SessionId, NoSession
<1>2. TableConsistent'
  BY DEF ForwardInv, TableConsistent, SessionId, NoSession
<1>3. \A t \in SessionId : t > created' => m_udpPacketQueue'[t] = << >>
  BY ForwardInvParts
<1>4. ASSUME NEW t \in SessionId PROVE SessionInv(t)'
  BY <1>1, SessionFrame, ForwardInvParts
<1> QED  BY <1>2, <1>3, <1>4, ForwardInvPrime

\* A receive completes: its handler, which is of no session, becomes ready.
LEMMA StepCompleteReceive ==
  ASSUME ForwardInv, CompleteReceive
  PROVE  ForwardInv'
<1> USE DEF ForwardInv, CompleteReceive, tableVars, socketVars, queueVars
<1>1. HandlerOf("recv", NoSession) \in Handler
  BY DEF HandlerOf, Handler
<1>2. TypeOK'
  BY <1>1, AppendElements DEF TypeOK
<1>3. CreatedByDatagram'
  BY DEF CreatedByDatagram
<1>4. \A t \in SessionId : HandlerOf("recv", NoSession).s # t
  BY ConstantsAssumption DEF HandlerOf, SessionId, NoSession
<1>5. ASSUME NEW t \in SessionId, NEW ops
      PROVE  /\ Holds(ready', t, ops) <=> Holds(ready, t, ops)
             /\ Once(ready, t, ops) => Once(ready', t, ops)
  BY <1>1, <1>4, AppendHolds DEF TypeOK
<1>6. \A t \in SessionId : Once(ready, t, LaneOp)
  BY DEF SingleWriter, AtMostOne
<1>7. \A p \in Peers : m_udpSessions'[p] \in {NoSession, m_udpSessions[p]}
  OBVIOUS
<1> QED  BY <1>2, <1>3, <1>5, <1>6, <1>7, ForwardFrame

\* An operation completes: it moves from pending to ready, and stays the only
\* one of its lane.
LEMMA StepComplete ==
  ASSUME ForwardInv, NEW s \in SessionId, NEW op \in Op, Complete(s, op)
  PROVE  ForwardInv'
<1> USE DEF ForwardInv, tableVars, socketVars, queueVars, receiveVars
<1> DEFINE x == HandlerOf(op, s)
<1>1. x \in Handler /\ x.s = s /\ x.h = op
  BY DEF HandlerOf, Handler
<1>2. TypeOK'
  BY <1>1, AppendElements, SMTT(30) DEF TypeOK, Complete
<1>3. CreatedByDatagram' /\ TableConsistent'
  BY DEF CreatedByDatagram, TableConsistent, Complete
<1>4. \A t \in SessionId : t > created' => m_udpPacketQueue'[t] = << >>
  BY DEF LaneHasPacket, Complete
<1>5. ASSUME NEW t, NEW ops
      PROVE  /\ Holds(ready', t, ops) <=> Holds(ready, t, ops) \/ (t = s /\ op \in ops)
             /\ Once(ready, t, ops) /\ (Holds(ready, t, ops) => ~(t = s /\ op \in ops))
                  => Once(ready', t, ops)
  BY <1>1, AppendHolds, SMTT(30) DEF TypeOK, Complete
<1>6. \A t \in SessionId : Mapped(t)' = Mapped(t)
  BY DEF Mapped, Complete
<1>7. \A t \in SessionId, o \in Op :
        pending'[t][o] = IF t = s /\ o = op THEN pending[t][o] - 1 ELSE pending[t][o]
  BY DEF TypeOK, Complete
<1>8. \A t \in SessionId : SessionInv(t) /\ Once(ready, t, LaneOp)
  BY ForwardInvParts DEF SessionInv, AtMostOne
<1>9. LaneOp \subseteq Op /\ "write" \in LaneOp /\ "remove" \notin Op
  BY DEF LaneOp, ReadOp, Op
<1>10. ASSUME NEW t \in SessionId, t # s \/ op \notin LaneOp
       PROVE  SessionInv(t)'
  BY <1>5, <1>6, <1>7, <1>8, <1>9, <1>10, SessionFrame DEF Complete
<1>11. ASSUME op \in LaneOp
       PROVE  SessionInv(s)'
  <2>1. /\ pending[s][op] = 1 /\ ~Holds(ready, s, LaneOp)
        /\ \A o \in LaneOp : o # op => pending[s][o] = 0
    BY <1>8, <1>9, <1>11, SMTT(30) DEF SessionInv, AtMostOne, IsPending, InReady, Complete, TypeOK
  <2>2. \A o \in LaneOp : pending'[s][o] = 0
    BY <2>1, <1>7, <1>9, <1>11
  <2>3. AtMostOne(s, LaneOp)'
    BY <2>1, <2>2, <1>5, <1>8 DEF AtMostOne, IsPending
  <2>4. Outstanding(s, LaneOp) /\ (op = "write" => Outstanding(s, {"write"}))
    BY <1>11 DEF Outstanding, IsPending, Complete
  <2>5. Holds(ready', s, LaneOp)
    BY <1>5, <1>11
  <2>6. Outstanding(s, {"write"})' => op = "write" \/ Outstanding(s, {"write"})
    BY <2>2, <1>5, <1>9 DEF Outstanding, IsPending, InReady
  <2>7. m_udpPacketQueue'[s] = m_udpPacketQueue[s] /\ wbuf'[s] = wbuf[s]
    BY DEF Complete
  <2> QED  BY <2>3, <2>4, <2>5, <2>6, <2>7, <1>8 DEF SessionInv, Outstanding, InReady
<1> QED  BY <1>2, <1>3, <1>4, <1>10, <1>11, ForwardInvPrime
\* A queue with the same lane completions as ready and no removal less.
SameLanes(q) ==
  /\ q \in Seq(Handler)
  /\ \A t : /\ Holds(q, t, LaneOp) <=> Holds(ready, t, LaneOp)
            /\ Holds(q, t, {"write"}) => Holds(ready, t, {"write"})
            /\ Holds(ready, t, {"remove"}) => Holds(q, t, {"remove"})
  /\ \A t \in SessionId : Once(q, t, LaneOp)

\* A posted removal changes no lane completion.
LEMMA CloseSameLanes ==
  ASSUME NEW q, SameLanes(q), NEW s \in SessionId
  PROVE  SameLanes(close_session(q, s))
<1>1. "remove" \notin LaneOp /\ "remove" \notin {"write"} /\ q \in Seq(Handler)
  BY DEF LaneOp, SameLanes
<1> DEFINE r == close_session(q, s)
<1>2. /\ r \in Seq(Handler)
      /\ \A t, ops :
           /\ Holds(r, t, ops) <=> Holds(q, t, ops) \/ (t = s /\ "remove" \in ops)
           /\ Once(q, t, ops) /\ "remove" \notin ops => Once(r, t, ops)
  BY <1>1, CloseFacts
<1> HIDE DEF r
<1> QED  BY <1>1, <1>2 DEF SameLanes, r

\* A handler that is no lane operation runs and posts up to two removals.
LEMMA RunNoLane ==
  ASSUME ForwardInv, NEW h, NEW s, Runs(h, s), h \notin LaneOp, h # "remove",
         \/ ready' = Tail(ready)
         \/ s \in SessionId /\ ready' = close_session(Tail(ready), s)
         \/ s \in SessionId /\ ready' = close_session(close_session(Tail(ready), s), s)
  PROVE  SameLanes(ready')
<1>1. TypeOK /\ \A t \in SessionId : Once(ready, t, LaneOp)
  BY DEF ForwardInv, SingleWriter, AtMostOne
<1>2. h \notin {"write"} /\ h \notin {"remove"}
  BY DEF LaneOp
<1> DEFINE q == Tail(ready)
<1>3. /\ q \in Seq(Handler)
      /\ \A t, ops :
           /\ Holds(q, t, ops) => Holds(ready, t, ops)
           /\ Holds(ready, t, ops) => Holds(q, t, ops) \/ (t = s /\ h \in ops)
           /\ Once(ready, t, ops) => Once(q, t, ops)
  BY <1>1, RunFacts
<1> HIDE DEF q
<1>4. SameLanes(q)
  BY <1>1, <1>2, <1>3 DEF SameLanes
<1> QED  BY <1>4, CloseSameLanes DEF q

\* A header is read: no delivery is touched.
LEMMA StepReadHeader ==
  ASSUME ForwardInv, NEW s \in SessionId, handle_read_header(s)
  PROVE  ForwardInv'
<1> USE DEF tableVars, socketVars, queueVars, receiveVars, CloseSession
<1>1. "header" \notin LaneOp /\ "payload" \notin LaneOp /\ "payload" \in Op
  BY DEF LaneOp, ReadOp, Op
<1>2. /\ Runs("header", s)
      /\ ready' = Tail(ready) \/ ready' = close_session(Tail(ready), s)
      /\ pending' = pending \/ pending' = Initiate(pending, s, "payload")
  BY DEF handle_read_header
<1>3. pending \in PendingType
  BY DEF ForwardInv, TypeOK, PendingType
<1>4. pending' \in PendingType
  BY <1>1, <1>2, <1>3, InitiateFacts
<1>5. \A t \in SessionId, op \in LaneOp : pending'[t][op] = pending[t][op]
  BY <1>1, <1>2, <1>3, InitiateFacts DEF Op
<1>6. SameLanes(ready')
  BY <1>1, <1>2, RunNoLane
<1>7. TypeOK'
  <2>1. m_fromTcpPacket' \in [SessionId -> {"clear", "zero", "length"}]
    <3>1. \/ m_fromTcpPacket' = m_fromTcpPacket
          \/ m_fromTcpPacket' = [m_fromTcpPacket EXCEPT ![s] = "zero"]
          \/ m_fromTcpPacket' = [m_fromTcpPacket EXCEPT ![s] = "length"]
      BY DEF handle_read_header
    <3> QED  BY <3>1 DEF ForwardInv, TypeOK
  <2>2. closes' \in [SessionId -> Nat]
    <3>1. closes' = closes \/ closes' = [closes EXCEPT ![s] = @ + 1]
      BY DEF handle_read_header
    <3>2. closes \in [SessionId -> Nat]
      BY DEF ForwardInv, TypeOK
    <3> QED  BY <3>1, <3>2
  <2>3. UNCHANGED <<tableVars, socketVars, queueVars, receiveVars, deaf>>
    BY DEF handle_read_header
  <2> QED  BY <2>1, <2>2, <2>3, <1>4, <1>6
           DEF ForwardInv, TypeOK, PendingType, SameLanes
<1>8. CreatedByDatagram'
  BY DEF ForwardInv, CreatedByDatagram, handle_read_header
<1>9. \A p \in Peers : m_udpSessions'[p] \in {NoSession, m_udpSessions[p]}
  BY DEF handle_read_header
<1> QED  BY <1>5, <1>6, <1>7, <1>8, <1>9, ForwardFrame
         DEF handle_read_header, SameLanes

\* A payload is read: no delivery is touched, up to two removals are posted.
LEMMA StepReadPayload ==
  ASSUME ForwardInv, NEW s \in SessionId, handle_read_payload(s)
  PROVE  ForwardInv'
<1> USE DEF tableVars, socketVars, queueVars, receiveVars, CloseSession
<1>1. "header" \notin LaneOp /\ "payload" \notin LaneOp /\ "header" \in Op
  BY DEF LaneOp, ReadOp, Op
<1>2. /\ Runs("payload", s)
      /\ \/ ready' = Tail(ready)
         \/ ready' = close_session(Tail(ready), s)
         \/ ready' = close_session(close_session(Tail(ready), s), s)
      /\ pending' = pending \/ pending' = Initiate(pending, s, "header")
  BY DEF handle_read_payload, start_read_from_tcp
<1>3. pending \in PendingType
  BY DEF ForwardInv, TypeOK, PendingType
<1>4. pending' \in PendingType
  BY <1>1, <1>2, <1>3, InitiateFacts
<1>5. \A t \in SessionId, op \in LaneOp : pending'[t][op] = pending[t][op]
  BY <1>1, <1>2, <1>3, InitiateFacts DEF Op
<1>6. SameLanes(ready')
  BY <1>1, <1>2, RunNoLane
<1>7. TypeOK'
  <2>1. m_fromTcpPacket' \in [SessionId -> {"clear", "zero", "length"}]
    BY DEF ForwardInv, TypeOK, handle_read_payload
  <2>2. closes' \in [SessionId -> Nat]
    BY SMTT(30) DEF ForwardInv, TypeOK, handle_read_payload
  <2>3. deaf' \in [SessionId -> BOOLEAN]
    BY DEF ForwardInv, TypeOK, handle_read_payload
  <2>4. UNCHANGED <<tableVars, socketVars, queueVars, receiveVars>>
    BY DEF handle_read_payload
  <2> QED  BY <2>1, <2>2, <2>3, <2>4, <1>4, <1>6
           DEF ForwardInv, TypeOK, PendingType, SameLanes
<1>8. CreatedByDatagram'
  BY DEF ForwardInv, CreatedByDatagram, handle_read_payload
<1>9. \A p \in Peers : m_udpSessions'[p] \in {NoSession, m_udpSessions[p]}
  BY DEF handle_read_payload
<1> QED  BY <1>5, <1>6, <1>7, <1>8, <1>9, ForwardFrame
         DEF handle_read_payload, SameLanes

\* The removal takes the session of that address out of the table; its own
\* session, if it is still there, is the one of that address.
LEMMA StepConnectionFailed ==
  ASSUME ForwardInv, NEW s \in SessionId, handle_connection_failed(s)
  PROVE  ForwardInv'
<1> USE DEF tableVars, socketVars, queueVars, receiveVars
<1>1. "remove" \notin LaneOp /\ "remove" # "write"
  BY DEF LaneOp
<1>2. TypeOK /\ TableConsistent /\ \A t \in SessionId : Once(ready, t, LaneOp)
  BY DEF ForwardInv, SingleWriter, AtMostOne
<1>3. /\ Runs("remove", s) /\ ready' = Tail(ready)
      /\ m_udpSessions' = [q \in Peers |-> IF q = m_udpTuple[s] THEN NoSession
                                           ELSE m_udpSessions[q]]
  BY DEF handle_connection_failed, remove_session
<1>4. TypeOK'
  BY <1>2, <1>3, RunFacts, SMTT(30) DEF TypeOK, handle_connection_failed
<1>5. CreatedByDatagram'
  BY DEF ForwardInv, CreatedByDatagram, handle_connection_failed
<1>6. \A p \in Peers : m_udpSessions'[p] \in {NoSession, m_udpSessions[p]}
  BY <1>3
<1>7. ~Mapped(s)'
  BY <1>2, <1>3 DEF TableConsistent, Mapped, SessionId, NoSession
<1>8. ASSUME NEW t \in SessionId
      PROVE  /\ Holds(ready', t, LaneOp) <=> Holds(ready, t, LaneOp)
             /\ Holds(ready', t, {"write"}) => Holds(ready, t, {"write"})
             /\ Once(ready', t, LaneOp)
             /\ Mapped(t)' /\ Holds(ready, t, {"remove"})
                  => Holds(ready', t, {"remove"})
  BY <1>1, <1>2, <1>3, <1>7, RunFacts
<1> QED
  BY <1>4, <1>5, <1>6, <1>8, ForwardFrame DEF handle_connection_failed
-----------------------------------------------------------------------------
(* Steps of a delivery.                                                    *)

\* The session whose lane handler runs has no other lane operation under way.
LEMMA LaneToken ==
  ASSUME ForwardInv, NEW s \in SessionId, NEW op \in LaneOp, Runs(op, s)
  PROVE  /\ Tail(ready) \in Seq(Handler)
         /\ \A o \in LaneOp : pending[s][o] = 0
         /\ ~Holds(Tail(ready), s, LaneOp)
         /\ m_udpPacketQueue[s] # << >>
         /\ op = "write" => wbuf[s] = Head(m_udpPacketQueue[s])
<1>1. TypeOK /\ SessionInv(s) /\ Once(ready, s, LaneOp)
  BY ForwardInvParts DEF SessionInv, AtMostOne
<1>2. /\ Tail(ready) \in Seq(Handler)
      /\ Holds(ready, s, LaneOp)
      /\ op = "write" => Holds(ready, s, {"write"})
      /\ ~Holds(Tail(ready), s, LaneOp)
  BY <1>1, RunFacts
<1>3. ~IsPending(s, LaneOp)
  BY <1>1, <1>2 DEF SessionInv, AtMostOne, InReady
<1>4. \A o \in LaneOp : pending[s][o] = 0
  BY <1>1, <1>3 DEF IsPending, TypeOK, Op
<1> QED  BY <1>1, <1>2, <1>4 DEF SessionInv, Outstanding, InReady

\* The step leaves exactly one lane operation under way, and a packet for it.
LEMMA LaneRenewed ==
  ASSUME NEW s \in SessionId, NEW op \in LaneOp,
         \A o \in LaneOp : pending'[s][o] = IF o = op THEN 1 ELSE 0,
         ~Holds(ready', s, LaneOp),
         m_udpPacketQueue'[s] # << >>,
         op = "write" => wbuf'[s] = Head(m_udpPacketQueue'[s])
  PROVE  SessionInv(s)'
<1>1. Once(ready', s, LaneOp) /\ ~Holds(ready', s, {"write"})
  BY DEF Holds, Once, LaneOp
<1>2. IsPending(s, LaneOp)' /\ (IsPending(s, {"write"})' => op = "write")
  BY DEF IsPending, LaneOp
<1> QED  BY <1>1, <1>2 DEF SessionInv, AtMostOne, Outstanding, InReady

\* The step leaves no lane operation under way: nothing is left to send, or
\* the removal of the session is posted.
LEMMA LaneEnded ==
  ASSUME NEW s \in SessionId,
         \A o \in LaneOp : pending'[s][o] = 0,
         ~Holds(ready', s, LaneOp),
         m_udpPacketQueue'[s] = << >> \/ Holds(ready', s, {"remove"})
  PROVE  SessionInv(s)'
<1>1. Once(ready', s, LaneOp) /\ ~Holds(ready', s, {"write"})
  BY DEF Holds, Once, LaneOp
<1>2. ~IsPending(s, LaneOp)' /\ ~IsPending(s, {"write"})'
  BY DEF IsPending, LaneOp
<1> QED  BY <1>1, <1>2 DEF SessionInv, AtMostOne, Outstanding, InReady

\* A handler of session s leaves the deliveries of the other sessions alone.
LEMMA LaneOthers ==
  ASSUME ForwardInv, NEW s \in SessionId, NEW h, Runs(h, s),
         ready' = Tail(ready) \/ ready' = close_session(Tail(ready), s),
         UNCHANGED m_udpSessions,
         NEW t \in SessionId, t # s,
         \A op \in LaneOp : pending'[t][op] = pending[t][op],
         m_udpPacketQueue'[t] = m_udpPacketQueue[t],
         wbuf'[t] = wbuf[t]
  PROVE  SessionInv(t)'
<1>1. TypeOK /\ SessionInv(t) /\ Once(ready, t, LaneOp)
  BY ForwardInvParts DEF SessionInv, AtMostOne
<1> DEFINE q == Tail(ready)
<1>2. /\ q \in Seq(Handler)
      /\ \A ops : Holds(q, t, ops) <=> Holds(ready, t, ops)
      /\ Once(q, t, LaneOp)
  BY <1>1, RunFacts
<1> HIDE DEF q
<1>3. /\ \A ops : Holds(ready', t, ops) <=> Holds(ready, t, ops)
      /\ Once(ready', t, LaneOp)
  <2>1. CASE ready' = q
    BY <1>2, <2>1
  <2>2. CASE ready' = close_session(q, s)
    BY <1>2, <2>2, CloseFacts DEF LaneOp
  <2> QED  BY <2>1, <2>2 DEF q
<1>4. Mapped(t)' = Mapped(t)
  BY DEF Mapped
<1> QED  BY <1>1, <1>3, <1>4, SessionFrame

\* The parts of ForwardInv a handler that leaves the table alone keeps.
LEMMA TableFrame ==
  ASSUME ForwardInv, UNCHANGED <<tableVars, arrived>>,
         \A t \in SessionId : m_udpPacketQueue[t] = << >> => m_udpPacketQueue'[t] = << >>
  PROVE  /\ CreatedByDatagram' /\ TableConsistent'
         /\ \A t \in SessionId : t > created' => m_udpPacketQueue'[t] = << >>
BY DEF ForwardInv, CreatedByDatagram, TableConsistent, LaneHasPacket, tableVars

\* The two ways a lane handler of s fails or tries the next endpoint; they are
\* shared by handle_resolve and handle_connection.
LEMMA LaneConnects ==
  ASSUME ForwardInv, NEW s \in SessionId, NEW op \in LaneOp, Runs(op, s),
         NEW rest \in 0..(MaxEndpoints - 1), async_connect(s, rest),
         UNCHANGED <<tableVars, queueVars, m_fromTcpPacket, receiveVars, deaf>>
  PROVE  ForwardInv'
<1> USE DEF tableVars, queueVars, receiveVars
<1>1. TypeOK /\ "connect" \in LaneOp
  BY DEF ForwardInv, LaneOp
<1>2. /\ Tail(ready) \in Seq(Handler)
      /\ \A o \in LaneOp : pending[s][o] = 0
      /\ ~Holds(Tail(ready), s, LaneOp)
      /\ m_udpPacketQueue[s] # << >>
  BY LaneToken
<1>3. pending \in PendingType /\ LaneOp \subseteq Op
  BY <1>1 DEF TypeOK, PendingType, Op
<1>4. pending' = Initiate(pending, s, "connect") /\ ready' = Tail(ready)
  BY DEF async_connect
<1>5. /\ CreatedByDatagram' /\ TableConsistent'
      /\ \A t \in SessionId : t > created' => m_udpPacketQueue'[t] = << >>
  BY TableFrame
<1>6. TypeOK'
  <2>1. endpoints' \in [SessionId -> 0..(MaxEndpoints - 1)]
    BY <1>1 DEF async_connect, TypeOK
  <2>2. is_open' \in [SessionId -> BOOLEAN]
    BY <1>1 DEF async_connect, TypeOK
  <2>3. pending' \in PendingType
    BY <1>1, <1>3, <1>4, InitiateFacts
  <2>4. UNCHANGED closes
    BY DEF async_connect
  <2> QED  BY <1>1, <1>2, <1>4, <2>1, <2>2, <2>3, <2>4 DEF TypeOK, PendingType
<1>7. SessionInv(s)'
  <2>1. \A o \in LaneOp : pending'[s][o] = IF o = "connect" THEN 1 ELSE 0
    BY <1>1, <1>2, <1>3, <1>4, InitiateFacts, SMTT(30)
  <2> QED  BY <1>1, <1>2, <1>4, <2>1, LaneRenewed
<1>8. ASSUME NEW t \in SessionId, t # s PROVE SessionInv(t)'
  <2>1. \A o \in LaneOp : pending'[t][o] = pending[t][o]
    BY <1>1, <1>3, <1>4, <1>8, InitiateFacts, SMTT(30)
  <2> QED  BY <1>4, <1>8, <2>1, LaneOthers
<1> QED  BY <1>5, <1>6, <1>7, <1>8, ForwardInvPrime

\* A lane handler of s fails: its removal is posted.
LEMMA LaneFails ==
  ASSUME ForwardInv, NEW s \in SessionId, NEW op \in LaneOp, Runs(op, s),
         CloseSession(s),
         UNCHANGED <<tableVars, socketVars, queueVars, m_fromTcpPacket, pending,
                     receiveVars, deaf>>
  PROVE  ForwardInv'
<1> USE DEF tableVars, socketVars, queueVars, receiveVars
<1>1. TypeOK /\ ready' = close_session(Tail(ready), s)
  BY DEF ForwardInv, CloseSession
<1>2. /\ Tail(ready) \in Seq(Handler)
      /\ \A o \in LaneOp : pending[s][o] = 0
      /\ ~Holds(Tail(ready), s, LaneOp)
  BY LaneToken
<1>3. /\ CreatedByDatagram' /\ TableConsistent'
      /\ \A t \in SessionId : t > created' => m_udpPacketQueue'[t] = << >>
  BY TableFrame
<1>4. TypeOK'
  <2>1. closes' \in [SessionId -> Nat]
    BY <1>1, SMTT(30) DEF CloseSession, TypeOK
  <2>2. ready' \in Seq(Handler)
    BY <1>1, <1>2, CloseFacts
  <2> QED  BY <1>1, <2>1, <2>2 DEF TypeOK
<1>5. SessionInv(s)'
  <2>1. ~Holds(ready', s, LaneOp) /\ Holds(ready', s, {"remove"})
    BY <1>1, <1>2, CloseFacts, ZenonT(60) DEF LaneOp
  <2> QED  BY <1>2, <2>1, LaneEnded
<1>6. ASSUME NEW t \in SessionId, t # s PROVE SessionInv(t)'
  BY <1>1, <1>6, LaneOthers
<1> QED  BY <1>3, <1>4, <1>5, <1>6, ForwardInvPrime

\* The name was resolved, or not: a connect follows, or the removal.
LEMMA StepResolve ==
  ASSUME ForwardInv, NEW s \in SessionId, handle_resolve(s)
  PROVE  ForwardInv'
<1>1. Runs("resolve", s) /\ "resolve" \in LaneOp
  BY DEF handle_resolve, LaneOp
<1>2. UNCHANGED <<tableVars, queueVars, m_fromTcpPacket, receiveVars, deaf>>
  BY DEF handle_resolve
<1>3. ASSUME NEW n \in 1..MaxEndpoints, async_connect(s, n - 1)
      PROVE  ForwardInv'
  <2>1. n - 1 \in 0..(MaxEndpoints - 1)
    BY ConstantsAssumption
  <2> QED  BY <1>1, <1>2, <1>3, <2>1, LaneConnects
<1>4. ASSUME CloseSession(s), UNCHANGED <<socketVars, pending>>
      PROVE  ForwardInv'
  BY <1>1, <1>2, <1>4, LaneFails
<1> QED  BY <1>3, <1>4 DEF handle_resolve
\* The session goes on with the queue q: it writes the front of q, or nothing
\* is left to write.
LEMMA LaneContinues ==
  ASSUME ForwardInv, NEW s \in SessionId, NEW op \in LaneOp, Runs(op, s),
         NEW q \in Seq(Packet),
         m_udpPacketQueue' = [m_udpPacketQueue EXCEPT ![s] = q],
         wbuf' = SendBuffer(s, q),
         ready' = Tail(ready),
         \/ q # << >> /\ \A o \in LaneOp : pending'[s][o] = deliver_to_tcp_peer(pending, s, q)[s][o]
         \/ q = << >> /\ \A o \in LaneOp : pending'[s][o] = pending[s][o],
         \A t \in SessionId, o \in LaneOp : t # s => pending'[t][o] = pending[t][o],
         UNCHANGED <<tableVars, arrived>>,
         TypeOK'
  PROVE  ForwardInv'
<1> USE DEF tableVars
<1>1. TypeOK /\ "write" \in LaneOp /\ "resolve" \in LaneOp
  BY DEF ForwardInv, LaneOp
<1>2. /\ Tail(ready) \in Seq(Handler)
      /\ \A o \in LaneOp : pending[s][o] = 0
      /\ ~Holds(Tail(ready), s, LaneOp)
      /\ m_udpPacketQueue[s] # << >>
  BY LaneToken
<1>3. pending \in PendingType /\ LaneOp \subseteq Op
  BY <1>1 DEF TypeOK, PendingType, Op
<1>4. m_udpPacketQueue'[s] = q /\ \A t \in SessionId : t # s => m_udpPacketQueue'[t] = m_udpPacketQueue[t]
  BY <1>1 DEF TypeOK
<1>5. /\ \A t \in SessionId : t # s => wbuf'[t] = wbuf[t]
      /\ is_open[s] /\ q # << >> => wbuf'[s] = Head(q)
  BY <1>1 DEF SendBuffer, TypeOK
<1>6. /\ CreatedByDatagram' /\ TableConsistent'
      /\ \A t \in SessionId : t > created' => m_udpPacketQueue'[t] = << >>
  BY <1>2, <1>4, TableFrame
<1>7. SessionInv(s)'
  <2>1. CASE q = << >>
    BY <1>2, <1>4, <2>1, LaneEnded
  <2>2. CASE q # << >> /\ is_open[s]
    <3>1. \A o \in LaneOp : pending'[s][o] = IF o = "write" THEN 1 ELSE 0
      <4>1. deliver_to_tcp_peer(pending, s, q) = Initiate(pending, s, "write")
        BY <2>2 DEF deliver_to_tcp_peer
      <4>2. \A o \in LaneOp : pending'[s][o] = Initiate(pending, s, "write")[s][o]
        BY <2>2, <4>1
      <4> QED  BY <1>1, <1>2, <1>3, <4>2, InitiateAlone
    <3> QED  BY <1>1, <1>2, <1>4, <1>5, <2>2, <3>1, LaneRenewed
  <2>3. CASE q # << >> /\ ~is_open[s]
    <3>1. \A o \in LaneOp : pending'[s][o] = IF o = "resolve" THEN 1 ELSE 0
      <4>1. deliver_to_tcp_peer(pending, s, q) = Initiate(pending, s, "resolve")
        BY <2>3 DEF deliver_to_tcp_peer, start
      <4>2. \A o \in LaneOp : pending'[s][o] = Initiate(pending, s, "resolve")[s][o]
        BY <2>3, <4>1
      <4> QED  BY <1>1, <1>2, <1>3, <4>2, InitiateAlone
    <3> QED  BY <1>1, <1>2, <1>4, <2>3, <3>1, LaneRenewed
  <2> QED  BY <2>1, <2>2, <2>3
<1>8. ASSUME NEW t \in SessionId, t # s PROVE SessionInv(t)'
  BY <1>4, <1>5, <1>8, LaneOthers
<1> QED  BY <1>6, <1>7, <1>8, ForwardInvPrime

\* What deliver_to_tcp_peer and SendBuffer do to the types.
LEMMA DeliverFacts ==
  ASSUME NEW pend \in PendingType, NEW s \in SessionId, NEW q \in Seq(Packet), TypeOK
  PROVE  /\ deliver_to_tcp_peer(pend, s, q) \in PendingType
         /\ \A t \in SessionId, o \in Op :
              t # s => deliver_to_tcp_peer(pend, s, q)[t][o] = pend[t][o]
         /\ SendBuffer(s, q) \in [SessionId -> Packet \union {0}]
<1>1. "resolve" \in Op /\ "write" \in Op
  BY DEF Op, LaneOp
<1>2. /\ deliver_to_tcp_peer(pend, s, q) \in PendingType
      /\ \A t \in SessionId, o \in Op :
           t # s => deliver_to_tcp_peer(pend, s, q)[t][o] = pend[t][o]
  BY <1>1, InitiateFacts DEF deliver_to_tcp_peer, start
<1>3. q # << >> => Head(q) \in Packet
  BY TailElements
<1>4. SendBuffer(s, q) \in [SessionId -> Packet \union {0}]
  BY <1>3 DEF SendBuffer, TypeOK
<1> QED  BY <1>2, <1>4

\* Connected: the front of the queue is written and a header is read; or the
\* next endpoint is tried, or the session fails.
LEMMA StepConnection ==
  ASSUME ForwardInv, NEW s \in SessionId, handle_connection(s)
  PROVE  ForwardInv'
<1> DEFINE q == m_udpPacketQueue[s]
<1>1. TypeOK /\ Runs("connect", s) /\ "connect" \in LaneOp
  BY DEF handle_connection, ForwardInv, LaneOp
<1>2. UNCHANGED <<tableVars, m_udpPacketQueue, accepted, delivered,
                  m_fromTcpPacket, receiveVars, deaf>>
  BY DEF handle_connection
<1>3. ASSUME is_open[s],
             pending' = start_read_from_tcp(deliver_to_tcp_peer(pending, s, q), s),
             wbuf' = SendBuffer(s, q),
             ready' = Tail(ready),
             UNCHANGED <<socketVars, closes>>
      PROVE  ForwardInv'
  <2> DEFINE pend == deliver_to_tcp_peer(pending, s, q)
  <2>1. q \in Seq(Packet) /\ pending \in PendingType
    BY <1>1 DEF TypeOK, PendingType
  <2>2. /\ q # << >>
        /\ Tail(ready) \in Seq(Handler)
    BY <1>1, LaneToken
  <2>3. /\ pend \in PendingType
        /\ \A t \in SessionId, o \in Op : t # s => pend[t][o] = pending[t][o]
        /\ SendBuffer(s, q) \in [SessionId -> Packet \union {0}]
    BY <1>1, <2>1, DeliverFacts
  <2>4. "header" \in Op /\ "header" \notin LaneOp /\ LaneOp \subseteq Op
    BY DEF Op, LaneOp, ReadOp
  <2>5. /\ pending' \in PendingType
        /\ \A t \in SessionId, o \in LaneOp : pending'[t][o] = pend[t][o]
    <3> HIDE DEF pend
    <3>1. pending' = Initiate(pend, s, "header")
      BY <1>3 DEF start_read_from_tcp, pend
    <3> QED  BY <2>3, <2>4, <3>1, InitiateFacts, SMTT(30)
  <2>6. TypeOK'
    BY <1>1, <1>2, <1>3, <2>2, <2>3, <2>5
    DEF TypeOK, PendingType, tableVars, socketVars, receiveVars
  <2>7. m_udpPacketQueue' = [m_udpPacketQueue EXCEPT ![s] = q]
    BY <1>1, <1>2 DEF TypeOK
  <2>8. UNCHANGED <<tableVars, arrived>>
    BY <1>2 DEF receiveVars
  <2>9. \A t \in SessionId, o \in LaneOp : t # s => pending'[t][o] = pending[t][o]
    BY <2>3, <2>4, <2>5
  <2> QED  BY <1>1, <1>3, <2>1, <2>2, <2>5, <2>6, <2>7, <2>8, <2>9, LaneContinues
<1>4. ASSUME endpoints[s] > 0, async_connect(s, endpoints[s] - 1), UNCHANGED wbuf
      PROVE  ForwardInv'
  <2>1. endpoints[s] - 1 \in 0..(MaxEndpoints - 1)
    BY <1>1, <1>4, ConstantsAssumption DEF TypeOK
  <2>2. UNCHANGED <<tableVars, queueVars, m_fromTcpPacket, receiveVars, deaf>>
    BY <1>2, <1>4 DEF queueVars
  <2> QED  BY <1>1, <1>4, <2>1, <2>2, LaneConnects
<1>5. ASSUME CloseSession(s), UNCHANGED <<socketVars, wbuf, pending>>
      PROVE  ForwardInv'
  <2>1. UNCHANGED <<tableVars, socketVars, queueVars, m_fromTcpPacket, pending,
                    receiveVars, deaf>>
    BY <1>2, <1>5 DEF queueVars
  <2> QED  BY <1>1, <1>5, <2>1, LaneFails
<1> QED  BY <1>3, <1>4, <1>5 DEF handle_connection

\* Written: the queue is popped and its next packet written; or the session
\* fails with its packets.
LEMMA StepDeliverTcp ==
  ASSUME ForwardInv, NEW s \in SessionId, handle_deliver_tcp(s)
  PROVE  ForwardInv'
<1> DEFINE rest == Tail(m_udpPacketQueue[s])
<1>1. TypeOK /\ Runs("write", s) /\ "write" \in LaneOp
  BY DEF handle_deliver_tcp, ForwardInv, LaneOp
<1>2. UNCHANGED <<tableVars, socketVars, accepted, m_fromTcpPacket, receiveVars, deaf>>
  BY DEF handle_deliver_tcp
<1>3. ASSUME delivered' = [delivered EXCEPT ![s] = Append(@, wbuf[s])],
             m_udpPacketQueue' = [m_udpPacketQueue EXCEPT ![s] = rest],
             pending' = IF rest # << >> THEN deliver_to_tcp_peer(pending, s, rest)
                        ELSE pending,
             wbuf' = SendBuffer(s, rest),
             ready' = Tail(ready),
             UNCHANGED closes
      PROVE  ForwardInv'
  <2>1. /\ m_udpPacketQueue[s] \in Seq(Packet) /\ m_udpPacketQueue[s] # << >>
        /\ Tail(ready) \in Seq(Handler)
        /\ wbuf[s] = Head(m_udpPacketQueue[s])
    BY <1>1, LaneToken DEF TypeOK
  <2>2. rest \in Seq(Packet) /\ wbuf[s] \in Packet
    BY <2>1, TailElements
  <2>3. pending \in PendingType /\ LaneOp \subseteq Op
    BY <1>1 DEF TypeOK, PendingType, Op
  <2> HIDE DEF rest
  <2>4. /\ pending' \in PendingType
        /\ \A t \in SessionId, o \in Op : t # s => pending'[t][o] = pending[t][o]
        /\ wbuf' \in [SessionId -> Packet \union {0}]
    BY <1>1, <1>3, <2>2, <2>3, DeliverFacts
  <2>5. m_udpPacketQueue' \in [SessionId -> Seq(Packet)]
    BY <1>1, <1>3, <2>2 DEF TypeOK
  <2>6. delivered' \in [SessionId -> Seq(Packet)]
    <3>1. Append(delivered[s], wbuf[s]) \in Seq(Packet)
      BY <1>1, <2>2, AppendElements DEF TypeOK
    <3> QED  BY <1>1, <1>3, <3>1 DEF TypeOK
  <2>7. TypeOK'
    BY <1>1, <1>2, <1>3, <2>1, <2>4, <2>5, <2>6
    DEF TypeOK, PendingType, tableVars, socketVars, receiveVars
  <2>8. UNCHANGED <<tableVars, arrived>>
    BY <1>2 DEF receiveVars
  <2>9. /\ \/ rest # << >> /\ pending' = deliver_to_tcp_peer(pending, s, rest)
           \/ rest = << >> /\ pending' = pending
        /\ \A t \in SessionId, o \in LaneOp : t # s => pending'[t][o] = pending[t][o]
    BY <1>3, <2>3, <2>4
  <2> QED  BY <1>1, <1>3, <2>2, <2>7, <2>8, <2>9, LaneContinues
<1>4. ASSUME CloseSession(s), UNCHANGED <<m_udpPacketQueue, pending, wbuf, delivered>>
      PROVE  ForwardInv'
  <2>1. UNCHANGED <<tableVars, socketVars, queueVars, m_fromTcpPacket, pending,
                    receiveVars, deaf>>
    BY <1>2, <1>4 DEF queueVars
  <2> QED  BY <1>1, <1>4, <2>1, LaneFails
<1> QED  BY <1>3, <1>4 DEF handle_deliver_tcp

\* A packet is added to the queue of session s of peer p, which is in the
\* table or has just been created.
LEMMA StepAddPacket ==
  ASSUME ForwardInv, NEW s \in SessionId, Runs("recv", NoSession),
         arrived < MaxDatagrams, arrived' = arrived + 1,
         add_router_packet(s, arrived + 1),
         ready' = Tail(ready), receiving' = TRUE,
         m_remoteEndpoint' \in Peers,
         UNCHANGED <<socketVars, m_fromTcpPacket, closes, deaf>>,
         m_udpSessions' \in [Peers -> SessionId \union {NoSession}],
         m_udpTuple' \in [SessionId -> Peers \union {NoPeer}],
         created' \in {created, created + 1}, s <= created',
         TableConsistent',
         \A t \in SessionId : t # s \/ m_udpPacketQueue[t] # << >>
                                => (Mapped(t)' => Mapped(t))
  PROVE  ForwardInv'
<1> DEFINE q == Append(m_udpPacketQueue[s], arrived + 1)
<1>1. TypeOK /\ created <= arrived /\ MaxDatagrams \in Nat /\ arrived \in Nat /\ created \in Nat
  BY ConstantsAssumption, SMTT(30) DEF ForwardInv, CreatedByDatagram, TypeOK
<1>2. arrived + 1 \in Packet
  BY <1>1 DEF Packet
<1>3. /\ q \in Seq(Packet) /\ q # << >>
      /\ m_udpPacketQueue[s] # << >> => Head(q) = Head(m_udpPacketQueue[s])
      /\ Append(accepted[s], arrived + 1) \in Seq(Packet)
  BY <1>1, <1>2, AppendElements, SMTT(30) DEF TypeOK
<1>4. /\ m_udpPacketQueue' = [m_udpPacketQueue EXCEPT ![s] = q]
      /\ accepted' = [accepted EXCEPT ![s] = Append(@, arrived + 1)]
      /\ UNCHANGED delivered
      /\ m_udpPacketQueue[s] = << >> =>
           /\ pending' = deliver_to_tcp_peer(pending, s, q)
           /\ wbuf' = SendBuffer(s, q)
      /\ m_udpPacketQueue[s] # << >> => UNCHANGED <<pending, wbuf>>
  BY DEF add_router_packet
<1> HIDE DEF q
<1>5. /\ pending \in PendingType /\ wbuf \in [SessionId -> Packet \union {0}]
      /\ LaneOp \subseteq Op /\ "write" \in LaneOp /\ "resolve" \in LaneOp
  BY <1>1 DEF TypeOK, PendingType, Op, LaneOp
<1>6. SameLanes(ready')
  <2>1. "recv" \notin LaneOp /\ "recv" # "remove"
    BY DEF LaneOp
  <2> QED  BY <2>1, RunNoLane
<1>7. /\ pending' \in PendingType
      /\ \A t \in SessionId, o \in Op : t # s => pending'[t][o] = pending[t][o]
      /\ wbuf' \in [SessionId -> Packet \union {0}]
      /\ \A t \in SessionId : t # s => wbuf'[t] = wbuf[t]
  <2>1. CASE m_udpPacketQueue[s] # << >>
    BY <1>4, <1>5, <2>1
  <2>2. CASE m_udpPacketQueue[s] = << >>
    <3>1. \A t \in SessionId : t # s => SendBuffer(s, q)[t] = wbuf[t]
      BY <1>5 DEF SendBuffer
    <3> QED  BY <1>1, <1>3, <1>4, <1>5, <2>2, <3>1, DeliverFacts
  <2> QED  BY <2>1, <2>2
<1>8. /\ m_udpPacketQueue' \in [SessionId -> Seq(Packet)]
      /\ accepted' \in [SessionId -> Seq(Packet)]
      /\ m_udpPacketQueue'[s] = q
      /\ \A t \in SessionId : t # s => m_udpPacketQueue'[t] = m_udpPacketQueue[t]
  BY <1>1, <1>3, <1>4 DEF TypeOK
<1>9. created' \in 0..MaxDatagrams /\ arrived' \in 0..MaxDatagrams
  BY <1>1
<1>10. TypeOK'
  BY <1>1, <1>4, <1>6, <1>7, <1>8, <1>9 DEF TypeOK, PendingType, SameLanes, socketVars
<1>11. CreatedByDatagram'
  BY <1>1 DEF CreatedByDatagram
<1>12. ASSUME NEW t \in SessionId, t > created'
       PROVE  m_udpPacketQueue'[t] = << >>
  <2>1. t > created /\ t # s
    BY <1>1, <1>12, <1>9 DEF SessionId
  <2> QED  BY <1>8, <2>1 DEF ForwardInv, LaneHasPacket
<1>13. ASSUME NEW t \in SessionId, t # s PROVE SessionInv(t)'
  <2>1. SessionInv(t)
    BY ForwardInvParts
  <2> QED  BY <1>5, <1>6, <1>7, <1>8, <1>13, <2>1, SessionFrame DEF SameLanes
<1>14. SessionInv(s)'
  <2>1. CASE m_udpPacketQueue[s] # << >>
    <3>1. /\ pending' = pending /\ wbuf' = wbuf
          /\ Head(m_udpPacketQueue'[s]) = Head(m_udpPacketQueue[s])
          /\ m_udpPacketQueue'[s] # << >>
      BY <1>3, <1>4, <1>8, <2>1
    <3>2. SessionInv(s) /\ IsPending(s, LaneOp)' = IsPending(s, LaneOp)
          /\ IsPending(s, {"write"})' = IsPending(s, {"write"})
      BY <3>1, ForwardInvParts DEF IsPending
    <3>3. Mapped(s)' => Outstanding(s, LaneOp)' \/ InReady(s, {"remove"})'
      <4> SUFFICES ASSUME Mapped(s)', ~Outstanding(s, LaneOp)'
                   PROVE  Holds(ready', s, {"remove"})
        BY DEF InReady
      <4>1. Mapped(s)
        BY <2>1
      <4> QED  BY <2>1, <3>2, <4>1, <1>6 DEF SessionInv, Outstanding, InReady, SameLanes
    <3> QED  BY <2>1, <3>1, <3>2, <3>3, <1>6
             DEF SessionInv, AtMostOne, Outstanding, InReady, SameLanes
  <2>2. CASE m_udpPacketQueue[s] = << >>
    <3>1. ~Holds(ready', s, LaneOp) /\ \A o \in LaneOp : pending[s][o] = 0
      BY <1>5, <1>6, <2>2, ForwardInvParts
      DEF SessionInv, Outstanding, IsPending, InReady, SameLanes, PendingType
    <3>2. is_open[s] => wbuf'[s] = Head(q)
      BY <1>3, <1>4, <1>5, <2>2 DEF SendBuffer
    <3>3. CASE is_open[s]
      <4>1. pending' = Initiate(pending, s, "write")
        BY <1>3, <1>4, <2>2, <3>3 DEF deliver_to_tcp_peer
      <4>2. \A o \in LaneOp : pending'[s][o] = IF o = "write" THEN 1 ELSE 0
        BY <1>5, <3>1, <4>1, InitiateAlone
      <4> QED  BY <1>3, <1>5, <1>8, <3>1, <3>2, <3>3, <4>2, LaneRenewed
    <3>4. CASE ~is_open[s]
      <4>1. pending' = Initiate(pending, s, "resolve")
        BY <1>3, <1>4, <2>2, <3>4 DEF deliver_to_tcp_peer, start
      <4>2. \A o \in LaneOp : pending'[s][o] = IF o = "resolve" THEN 1 ELSE 0
        BY <1>5, <3>1, <4>1, InitiateAlone
      <4> QED  BY <1>3, <1>5, <1>8, <3>1, <4>2, LaneRenewed
    <3> QED  BY <3>3, <3>4
  <2> QED  BY <2>1, <2>2
<1> QED  BY <1>10, <1>11, <1>12, <1>13, <1>14, ForwardInvPrime

\* A datagram is given to the session of its peer or to a new one, or a
\* receive error removes a session.
LEMMA StepReceive ==
  ASSUME ForwardInv, handle_receive
  PROVE  ForwardInv'
<1>1. /\ TypeOK /\ TableConsistent /\ created <= arrived
      /\ MaxDatagrams \in Nat /\ arrived \in Nat /\ created \in Nat
  BY ConstantsAssumption DEF ForwardInv, CreatedByDatagram, TypeOK
<1>2. /\ Runs("recv", NoSession) /\ ready' = Tail(ready) /\ receiving' = TRUE
      /\ UNCHANGED <<socketVars, m_fromTcpPacket, closes, deaf>>
  BY DEF handle_receive
<1>3. ASSUME arrived < MaxDatagrams, arrived' = arrived + 1,
             NEW p \in Peers, m_remoteEndpoint' = p,
             SessionsOf(p) = {}, created' = created + 1,
             add_session(created + 1, p),
             add_router_packet(created + 1, arrived + 1)
      PROVE  ForwardInv'
  <2> DEFINE s == created + 1
  <2>1. s \in SessionId
    BY <1>1, <1>3 DEF SessionId
  <2>2. /\ m_udpTuple' = [m_udpTuple EXCEPT ![s] = p]
        /\ m_udpSessions' = [m_udpSessions EXCEPT ![p] = s]
    BY <1>3 DEF add_session
  <2>3. m_udpPacketQueue[s] = << >>
    BY <1>1, <2>1 DEF ForwardInv, LaneHasPacket
  <2>4. \A t \in SessionId : t <= created => t # s
    BY <1>1 DEF SessionId
  <2>5. s <= created' /\ \A t \in SessionId : t <= created => t <= created'
    BY <1>1, <1>3 DEF SessionId
  <2> HIDE DEF s
  <2>6. /\ m_udpSessions' \in [Peers -> SessionId \union {NoSession}]
        /\ m_udpTuple' \in [SessionId -> Peers \union {NoPeer}]
    BY <1>1, <1>3, <2>1, <2>2 DEF TypeOK
  <2>7. TableConsistent'
    <3> SUFFICES ASSUME NEW p1 \in Peers, NEW s1 \in SessionId, m_udpSessions'[p1] = s1
                 PROVE  m_udpTuple'[s1] = p1 /\ s1 <= created'
      BY DEF TableConsistent
    <3>1. CASE p1 = p
      BY <1>1, <1>3, <2>1, <2>2, <2>5, <3>1 DEF TypeOK
    <3>2. CASE p1 # p
      BY <1>1, <1>3, <2>1, <2>2, <2>4, <2>5, <3>2 DEF TypeOK, TableConsistent
    <3> QED  BY <3>1, <3>2
  <2>8. \A t \in SessionId : t # s \/ m_udpPacketQueue[t] # << >>
                               => (Mapped(t)' => Mapped(t))
    BY <1>1, <1>3, <2>2, <2>3 DEF Mapped, TypeOK
  <2>9. add_router_packet(s, arrived + 1)
    BY <1>3 DEF s
  <2> QED  BY <1>2, <1>3, <2>1, <2>5, <2>6, <2>7, <2>8, <2>9, StepAddPacket
<1>4. ASSUME arrived < MaxDatagrams, arrived' = arrived + 1,
             NEW p \in Peers, m_remoteEndpoint' = p,
             NEW s \in SessionsOf(p), add_router_packet(s, arrived + 1),
             UNCHANGED tableVars
      PROVE  ForwardInv'
  <2>1. s \in SessionId /\ \E q \in Peers : m_udpSessions[q] = s
    BY DEF SessionsOf
  <2>2. s <= created'
    BY <1>1, <1>4, <2>1 DEF TableConsistent, tableVars
  <2>3. /\ m_udpSessions' \in [Peers -> SessionId \union {NoSession}]
        /\ m_udpTuple' \in [SessionId -> Peers \union {NoPeer}]
        /\ TableConsistent'
        /\ created' = created
        /\ \A t \in SessionId : Mapped(t)' => Mapped(t)
    BY <1>1, <1>4 DEF TypeOK, TableConsistent, Mapped, tableVars
  <2> QED  BY <1>2, <1>4, <2>1, <2>2, <2>3, StepAddPacket
<1>5. ASSUME remove_session(m_remoteEndpoint),
             UNCHANGED <<created, m_udpTuple, queueVars, pending,
                         m_remoteEndpoint, arrived>>
      PROVE  ForwardInv'
  <2>1. "recv" \notin LaneOp /\ "recv" # "remove"
    BY DEF LaneOp
  <2>2. SameLanes(ready')
    BY <1>2, <2>1, RunNoLane
  <2>3. /\ m_udpSessions' \in [Peers -> SessionId \union {NoSession}]
        /\ \A p \in Peers : m_udpSessions'[p] \in {NoSession, m_udpSessions[p]}
    BY <1>1, <1>5 DEF remove_session, TypeOK
  <2>4. TypeOK'
    BY <1>1, <1>2, <1>5, <2>2, <2>3 DEF TypeOK, SameLanes, socketVars, queueVars
  <2>5. CreatedByDatagram'
    BY <1>1, <1>5 DEF CreatedByDatagram
  <2>6. UNCHANGED <<created, m_udpTuple, m_udpPacketQueue, wbuf, pending>>
    BY <1>5 DEF queueVars
  <2> QED  BY <2>2, <2>3, <2>4, <2>5, <2>6, ForwardFrame DEF SameLanes
<1> QED  BY <1>3, <1>4, <1>5 DEF handle_receive, deliver_from_udp_peer

-----------------------------------------------------------------------------
(* The theorems.                                                           *)

\* Initially nothing is queued, pending, ready or in the table.
LEMMA ForwardInvInit == Init => ForwardInv
<1> SUFFICES ASSUME Init PROVE ForwardInv
  OBVIOUS
<1>1. TypeOK
  BY ConstantsAssumption DEF Init, TypeOK, SessionId, Packet
<1>2. \A t, ops : ~Holds(ready, t, ops) /\ Once(ready, t, ops)
  BY DEF Init, Holds, Once
<1>3. \A t \in SessionId : ~IsPending(t, LaneOp) /\ ~IsPending(t, {"write"})
  BY DEF Init, IsPending, LaneOp, Op
<1>4. \A t \in SessionId : SessionInv(t)
  <2> SUFFICES ASSUME NEW t \in SessionId PROVE SessionInv(t)
    OBVIOUS
  <2>1. \A o \in LaneOp : pending[t][o] = 0
    BY DEF Init, Op
  <2> QED  BY <1>2, <1>3, <2>1, SMTT(30)
           DEF Init, SessionInv, AtMostOne, Outstanding, InReady
<1>5. CreatedByDatagram /\ TableConsistent
  BY DEF Init, CreatedByDatagram, TableConsistent, SessionId, NoSession
<1>6. \A t \in SessionId : m_udpPacketQueue[t] = << >>
  BY DEF Init
<1> QED  BY <1>1, <1>4, <1>5, <1>6, ForwardInvParts

\* A stuttering step keeps ForwardInv.
LEMMA ForwardInvStutter ==
  ASSUME ForwardInv, UNCHANGED vars
  PROVE  ForwardInv'
<1>1. UNCHANGED <<m_udpSessions, created, m_udpTuple, is_open, endpoints,
                  m_udpPacketQueue, wbuf, accepted, delivered, m_fromTcpPacket,
                  pending, ready, receiving, m_remoteEndpoint, arrived, closes, deaf>>
  BY DEF vars, tableVars, socketVars, queueVars, receiveVars
<1>2. TypeOK' /\ CreatedByDatagram' /\ TableConsistent'
  BY <1>1 DEF ForwardInv, TypeOK, CreatedByDatagram, TableConsistent
<1>3. \A t \in SessionId : t > created' => m_udpPacketQueue'[t] = << >>
  BY <1>1 DEF ForwardInv, LaneHasPacket
<1>4. ASSUME NEW t \in SessionId PROVE SessionInv(t)'
  BY <1>1, ForwardInvParts, SessionFrame DEF Mapped, SessionInv, AtMostOne
<1> QED  BY <1>2, <1>3, <1>4, ForwardInvPrime

\* Every step keeps ForwardInv.
LEMMA ForwardInvNext == ForwardInv /\ [Next]_vars => ForwardInv'
<1> SUFFICES ASSUME ForwardInv, [Next]_vars PROVE ForwardInv'
  OBVIOUS
<1>1. CASE handle_receive
  BY <1>1, StepReceive
<1>2. ASSUME NEW s \in SessionId, handle_resolve(s) PROVE ForwardInv'
  BY <1>2, StepResolve
<1>3. ASSUME NEW s \in SessionId, handle_connection(s) PROVE ForwardInv'
  BY <1>3, StepConnection
<1>4. ASSUME NEW s \in SessionId, handle_deliver_tcp(s) PROVE ForwardInv'
  BY <1>4, StepDeliverTcp
<1>5. ASSUME NEW s \in SessionId, handle_read_header(s) PROVE ForwardInv'
  BY <1>5, StepReadHeader
<1>6. ASSUME NEW s \in SessionId, handle_read_payload(s) PROVE ForwardInv'
  BY <1>6, StepReadPayload
<1>7. ASSUME NEW s \in SessionId, handle_connection_failed(s) PROVE ForwardInv'
  BY <1>7, StepConnectionFailed
<1>8. CASE CompleteReceive
  BY <1>8, StepCompleteReceive
<1>9. ASSUME NEW s \in SessionId, NEW op \in Op, Complete(s, op) PROVE ForwardInv'
  BY <1>9, StepComplete
<1>10. CASE UNCHANGED vars
  BY <1>10, ForwardInvStutter
<1> QED
  BY <1>1, <1>2, <1>3, <1>4, <1>5, <1>6, <1>7, <1>8, <1>9, <1>10
  DEF Next, RunHandler, Environment

\* Every reachable state satisfies the inductive invariant.
THEOREM ForwardInvariant == Spec => []ForwardInv
BY ForwardInvInit, ForwardInvNext, PTL DEF Spec

\* The variables keep their types: no packet is taken from an empty queue, no
\* session is created beyond the datagrams that arrived.
THEOREM TypeCorrect == Spec => []TypeOK
<1>1. ForwardInv => TypeOK
  BY DEF ForwardInv
<1> QED  BY <1>1, ForwardInvariant, PTL

\* deliver_to_tcp_peer never starts a second resolve, connect or write.
THEOREM DeliveriesAreSerial == Spec => []SingleWriter
<1>1. ForwardInv => SingleWriter
  BY DEF ForwardInv
<1> QED  BY <1>1, ForwardInvariant, PTL

\* The buffer given to async_write is the front of the queue until its
\* handler ran.
THEOREM WriteBufferStaysValid == Spec => []BufferValid
<1>1. ForwardInv => BufferValid
  BY DEF ForwardInv
<1> QED  BY <1>1, ForwardInvariant, PTL

\* A session in the table never holds packets that nothing will move.
THEOREM SessionsDoNotWedge == Spec => []NoWedge
<1>1. ForwardInv => NoWedge
  BY DEF ForwardInv
<1> QED  BY <1>1, ForwardInvariant, PTL
-----------------------------------------------------------------------------
(* No loss, duplicate or reordering on one connection.                     *)

\* An element added after a concatenation is added to its second part.
LEMMA AppendRight ==
  ASSUME NEW d \in Seq(Packet), NEW q \in Seq(Packet), NEW x \in Packet
  PROVE  Append(d \o q, x) = d \o Append(q, x)
<1>1. d \o q \in Seq(Packet) /\ <<x>> \in Seq(Packet)
  BY ConcatProperties
<1>2. Append(d \o q, x) = (d \o q) \o <<x>>
  BY <1>1, AppendIsConcat
<1>3. Append(q, x) = q \o <<x>>
  BY <1>1, AppendIsConcat
<1> QED  BY <1>1, <1>2, <1>3, ConcatAssociative, SMTT(30)

\* The head of the second part of a concatenation may move to the first.
LEMMA MoveHead ==
  ASSUME NEW S, NEW d \in Seq(S), NEW q \in Seq(S), q # << >>
  PROVE  Append(d, Head(q)) \o Tail(q) = d \o q
<1>1. Head(q) \in S /\ Tail(q) \in Seq(S) /\ <<Head(q)>> \in Seq(S)
  BY TailElements
<1>2. q = <<Head(q)>> \o Tail(q)
  BY <1>1
<1>3. Append(d, Head(q)) = d \o <<Head(q)>>
  BY <1>1, AppendIsConcat
<1> QED  BY <1>1, <1>2, <1>3, ConcatAssociative, SMTT(30)

\* Every step keeps ForwardFIFO, given ForwardInv.
LEMMA ForwardFIFONext ==
  ForwardInv /\ ForwardFIFO /\ [Next]_vars => ForwardFIFO'
<1> SUFFICES ASSUME ForwardInv, ForwardFIFO, [Next]_vars PROVE ForwardFIFO'
  OBVIOUS
<1>1. TypeOK
  BY DEF ForwardInv
<1>2. ASSUME UNCHANGED <<m_udpPacketQueue, accepted, delivered>>
      PROVE  ForwardFIFO'
  BY <1>2 DEF ForwardFIFO
<1>3. ASSUME NEW s \in SessionId, NEW x \in Packet, add_router_packet(s, x)
      PROVE  ForwardFIFO'
  <2>1. /\ m_udpPacketQueue' = [m_udpPacketQueue EXCEPT ![s] = Append(@, x)]
        /\ accepted' = [accepted EXCEPT ![s] = Append(@, x)]
        /\ UNCHANGED delivered
    BY <1>3 DEF add_router_packet
  <2>2. /\ delivered[s] \in Seq(Packet) /\ m_udpPacketQueue[s] \in Seq(Packet)
        /\ accepted[s] = delivered[s] \o m_udpPacketQueue[s]
    BY <1>1 DEF TypeOK, ForwardFIFO
  <2>3. Append(accepted[s], x) = delivered[s] \o Append(m_udpPacketQueue[s], x)
    <3> DEFINE d == delivered[s]
               q == m_udpPacketQueue[s]
               a == accepted[s]
    <3>1. d \in Seq(Packet) /\ q \in Seq(Packet) /\ a = d \o q
      BY <2>2
    <3> HIDE DEF d, q, a
    <3>2. Append(a, x) = d \o Append(q, x)
      BY <3>1, AppendRight
    <3> QED  BY <3>2 DEF d, q, a
  <2> QED  BY <1>1, <2>1, <2>3 DEF TypeOK, ForwardFIFO
<1>4. CASE handle_receive
  <2>1. \A p : \A s \in SessionsOf(p) : s \in SessionId
    BY DEF SessionsOf
  <2>2. arrived < MaxDatagrams => created + 1 \in SessionId /\ arrived + 1 \in Packet
    BY <1>1, ConstantsAssumption
    DEF ForwardInv, CreatedByDatagram, TypeOK, SessionId, Packet
  <2> QED  BY <1>2, <1>3, <1>4, <2>1, <2>2
           DEF handle_receive, deliver_from_udp_peer, queueVars
<1>5. ASSUME NEW s \in SessionId, handle_deliver_tcp(s)
      PROVE  ForwardFIFO'
  <2>1. CASE /\ delivered' = [delivered EXCEPT ![s] = Append(@, wbuf[s])]
             /\ m_udpPacketQueue' = [m_udpPacketQueue EXCEPT ![s] = Tail(@)]
             /\ UNCHANGED accepted
    <3>1. m_udpPacketQueue[s] # << >> /\ wbuf[s] = Head(m_udpPacketQueue[s])
      BY <1>5, LaneToken DEF handle_deliver_tcp, LaneOp
    <3>2. accepted[s] = Append(delivered[s], wbuf[s]) \o Tail(m_udpPacketQueue[s])
      <4>1. /\ delivered[s] \in Seq(Packet) /\ m_udpPacketQueue[s] \in Seq(Packet)
            /\ accepted[s] = delivered[s] \o m_udpPacketQueue[s]
        BY <1>1 DEF TypeOK, ForwardFIFO
      <4> QED  BY <3>1, <4>1, MoveHead
    <3> QED  BY <1>1, <2>1, <3>2 DEF TypeOK, ForwardFIFO
  <2>2. CASE UNCHANGED <<m_udpPacketQueue, accepted, delivered>>
    BY <1>2, <2>2
  <2> QED  BY <1>5, <2>1, <2>2 DEF handle_deliver_tcp
<1>6. ASSUME NEW s \in SessionId,
             \/ handle_resolve(s) \/ handle_connection(s) \/ handle_read_header(s)
             \/ handle_read_payload(s) \/ handle_connection_failed(s)
      PROVE  ForwardFIFO'
  BY <1>2, <1>6 DEF handle_resolve, handle_connection, handle_read_header,
                    handle_read_payload, handle_connection_failed, queueVars
<1>7. CASE CompleteReceive \/ \E s \in SessionId, op \in Op : Complete(s, op)
  BY <1>2, <1>7 DEF CompleteReceive, Complete, queueVars
<1>8. CASE UNCHANGED vars
  BY <1>2, <1>8 DEF vars, queueVars
<1> QED  BY <1>4, <1>5, <1>6, <1>7, <1>8 DEF Next, RunHandler, Environment

\* On its connection F1 is sent a prefix of what the session accepted, in
\* order; the rest is still in the queue.
THEOREM ConnectionIsFIFO == Spec => []ForwardFIFO
<1>1. Init => ForwardFIFO
  BY DEF Init, ForwardFIFO
<1> QED  BY <1>1, ForwardInvariant, ForwardFIFONext, PTL DEF Spec

-----------------------------------------------------------------------------
(* The table.                                                              *)

\* No session is put in the place of another, and the table gains only a
\* session that was just created.
THEOREM TableNeverReplaces == Spec => NeverReplaced
<1> DEFINE Step == \A p \in Peers : m_udpSessions'[p] # m_udpSessions[p] =>
              \/ m_udpSessions'[p] = NoSession
              \/ m_udpSessions[p] = NoSession /\ m_udpSessions'[p] = created + 1
<1>1. ForwardInv /\ [Next]_vars => [Step]_vars
  <2> SUFFICES ASSUME ForwardInv, Next PROVE Step
    OBVIOUS
  <2>1. TypeOK /\ TableConsistent
    BY DEF ForwardInv
  <2>2. ASSUME UNCHANGED m_udpSessions PROVE Step
    BY <2>2
  <2>3. ASSUME NEW p, remove_session(p) PROVE Step
    BY <2>1, <2>3 DEF remove_session, TypeOK
  <2>4. ASSUME NEW p \in Peers, SessionsOf(p) = {}, add_session(created + 1, p)
        PROVE  Step
    <3>1. m_udpSessions[p] = NoSession
      BY <2>1, <2>4 DEF TypeOK, TableConsistent, SessionsOf
    <3> QED  BY <2>1, <2>4, <3>1 DEF add_session, TypeOK
  <2>5. CASE handle_receive
    BY <2>2, <2>3, <2>4, <2>5 DEF handle_receive, deliver_from_udp_peer, tableVars
  <2>6. ASSUME NEW s \in SessionId, handle_connection_failed(s) PROVE Step
    BY <2>3, <2>6 DEF handle_connection_failed
  <2>7. ASSUME NEW s \in SessionId,
               \/ handle_resolve(s) \/ handle_connection(s) \/ handle_deliver_tcp(s)
               \/ handle_read_header(s) \/ handle_read_payload(s)
        PROVE  Step
    BY <2>2, <2>7 DEF handle_resolve, handle_connection, handle_deliver_tcp,
                      handle_read_header, handle_read_payload, tableVars
  <2>8. CASE CompleteReceive \/ \E s \in SessionId, op \in Op : Complete(s, op)
    BY <2>2, <2>8 DEF CompleteReceive, Complete, tableVars
  <2> QED  BY <2>5, <2>6, <2>7, <2>8 DEF Next, RunHandler, Environment
<1> QED  BY <1>1, ForwardInvariant, PTL DEF Spec, NeverReplaced

-----------------------------------------------------------------------------
(* The reader of a session.                                                *)

Connecting == {"resolve", "connect"}

\* A session reads only on an open socket it no longer connects, so that a
\* second connection attempt, and with it a second reader, cannot start; it
\* writes only on an open socket, and no socket is open before its session is
\* created.  The last part is that of ReaderAlive.
ReadInv(t) ==
  /\ AtMostOne(t, ReadOp)
  /\ Outstanding(t, ReadOp) => is_open[t] /\ ~Outstanding(t, Connecting)
  /\ Outstanding(t, {"write"}) => is_open[t]
  /\ t > created => ~is_open[t]
  /\ Mapped(t) /\ ~Outstanding(t, Connecting) /\ ~InReady(t, {"remove"}) /\ ~deaf[t]
       => Outstanding(t, ReadOp)

\* The operations that connect, write and read are of different kinds.
LEMMA Kinds ==
  /\ Connecting \subseteq LaneOp /\ LaneOp \subseteq Op /\ ReadOp \subseteq Op
  /\ \A o \in ReadOp : o \notin LaneOp /\ o \notin Connecting /\ o \notin {"write"}
  /\ "write" \in LaneOp /\ "write" \notin Connecting
  /\ \A o \in LaneOp : o \in Connecting \/ o = "write"
  /\ "remove" \notin ReadOp /\ "remove" \notin Connecting /\ "remove" \notin {"write"}
  /\ "remove" \notin LaneOp
  /\ "recv" \notin ReadOp /\ "recv" \notin Connecting /\ "recv" \notin {"write"}
  /\ "resolve" \in Connecting /\ "connect" \in Connecting
  /\ "header" \in ReadOp /\ "payload" \in ReadOp
BY DEF Connecting, LaneOp, ReadOp, Op

\* What the handler h of s leaves in ready, when it posts no removal, one or
\* two of session u.
LEMMA AfterRun ==
  ASSUME TypeOK, NEW h, NEW s, Runs(h, s), NEW u \in SessionId,
         \/ ready' = Tail(ready)
         \/ ready' = close_session(Tail(ready), u)
         \/ ready' = close_session(close_session(Tail(ready), u), u)
  PROVE  /\ \A t, ops : "remove" \notin ops =>
              /\ t # s \/ h \notin ops => (Holds(ready', t, ops) <=> Holds(ready, t, ops))
              /\ Once(ready, t, ops) => Once(ready', t, ops)
              /\ Once(ready, t, ops) /\ t = s /\ h \in ops => ~Holds(ready', t, ops)
         /\ \A t : Holds(ready, t, {"remove"}) /\ (t # s \/ h # "remove")
                     => Holds(ready', t, {"remove"})
         /\ ready' = Tail(ready) \/ Holds(ready', u, {"remove"})
<1> DEFINE q == Tail(ready)
<1>1. /\ q \in Seq(Handler)
      /\ \A t, ops :
           /\ Holds(q, t, ops) => Holds(ready, t, ops)
           /\ Holds(ready, t, ops) => Holds(q, t, ops) \/ (t = s /\ h \in ops)
           /\ Once(ready, t, ops) => Once(q, t, ops)
           /\ Once(ready, t, ops) /\ t = s /\ h \in ops => ~Holds(q, t, ops)
  BY RunFacts
<1>2. ready' = q \/ ready' = close_session(q, u) \/ ready' = close_session(close_session(q, u), u)
  OBVIOUS
<1> HIDE DEF q
<1>3. /\ close_session(q, u) \in Seq(Handler)
      /\ \A t, ops :
           /\ Holds(close_session(q, u), t, ops)
                <=> Holds(q, t, ops) \/ (t = u /\ "remove" \in ops)
           /\ Once(q, t, ops) /\ "remove" \notin ops => Once(close_session(q, u), t, ops)
  BY <1>1, CloseFacts
<1>4. PICK c : c = close_session(q, u)
  OBVIOUS
<1>5. \A t, ops :
        /\ Holds(close_session(c, u), t, ops)
             <=> Holds(c, t, ops) \/ (t = u /\ "remove" \in ops)
        /\ Once(c, t, ops) /\ "remove" \notin ops => Once(close_session(c, u), t, ops)
  BY <1>3, <1>4, CloseFacts
<1>6. \A t, ops : "remove" \notin ops =>
        /\ Holds(ready', t, ops) <=> Holds(q, t, ops)
        /\ Once(q, t, ops) => Once(ready', t, ops)
  BY <1>2, <1>3, <1>4, <1>5
<1>7. /\ \A t : Holds(q, t, {"remove"}) => Holds(ready', t, {"remove"})
      /\ ready' = q \/ Holds(ready', u, {"remove"})
  <2>1. CASE ready' = q
    BY <2>1
  <2>2. CASE ready' = c
    BY <1>3, <1>4, <2>2
  <2>3. CASE ready' = close_session(c, u)
    BY <1>3, <1>4, <1>5, <2>3
  <2> QED  BY <1>2, <1>4, <2>1, <2>2, <2>3
<1>8. \A t : Holds(ready, t, {"remove"}) /\ (t # s \/ h # "remove") => Holds(q, t, {"remove"})
  BY <1>1
<1> QED  BY <1>1, <1>6, <1>7, <1>8 DEF q

\* A session keeps its reader when a step leaves its operations alone.
LEMMA ReadFrame ==
  ASSUME NEW t \in SessionId, ReadInv(t),
         \A o \in Op : pending'[t][o] = pending[t][o],
         is_open'[t] = is_open[t], deaf[t] => deaf'[t],
         t > created' => t > created,
         \A ops \in {ReadOp, Connecting, {"write"}} :
           /\ Holds(ready', t, ops) <=> Holds(ready, t, ops)
           /\ Once(ready, t, ops) => Once(ready', t, ops),
         Mapped(t)' => Mapped(t),
         Mapped(t)' /\ Holds(ready, t, {"remove"}) => Holds(ready', t, {"remove"})
  PROVE  ReadInv(t)'
<1>1. ReadOp \subseteq Op /\ Connecting \subseteq Op /\ {"write"} \subseteq Op
  BY Kinds
<1>2. /\ Holds(ready', t, ReadOp) <=> Holds(ready, t, ReadOp)
      /\ Holds(ready', t, Connecting) <=> Holds(ready, t, Connecting)
      /\ Holds(ready', t, {"write"}) <=> Holds(ready, t, {"write"})
      /\ Once(ready, t, ReadOp) => Once(ready', t, ReadOp)
  OBVIOUS
<1>3. /\ IsPending(t, ReadOp)' <=> IsPending(t, ReadOp)
      /\ IsPending(t, Connecting)' <=> IsPending(t, Connecting)
      /\ IsPending(t, {"write"})' <=> IsPending(t, {"write"})
  BY <1>1 DEF IsPending
<1>4. /\ Outstanding(t, ReadOp)' <=> Outstanding(t, ReadOp)
      /\ Outstanding(t, Connecting)' <=> Outstanding(t, Connecting)
      /\ Outstanding(t, {"write"})' <=> Outstanding(t, {"write"})
  BY <1>2, <1>3 DEF Outstanding, InReady
<1>5. AtMostOne(t, ReadOp)'
  BY <1>1, <1>2, <1>3 DEF ReadInv, AtMostOne, InReady
<1> QED  BY <1>4, <1>5 DEF ReadInv, InReady

\* The same for the sessions other than the one whose handler runs.
LEMMA ReadOthers ==
  ASSUME TypeOK, NEW h, NEW s, Runs(h, s), NEW u \in SessionId,
         \/ ready' = Tail(ready)
         \/ ready' = close_session(Tail(ready), u)
         \/ ready' = close_session(close_session(Tail(ready), u), u),
         NEW t \in SessionId, ReadInv(t), t # s,
         \A o \in Op : pending'[t][o] = pending[t][o],
         is_open'[t] = is_open[t], deaf[t] => deaf'[t],
         t > created' => t > created, Mapped(t)' => Mapped(t)
  PROVE  ReadInv(t)'
<1>1. \A ops \in {ReadOp, Connecting, {"write"}} :
        /\ Holds(ready', t, ops) <=> Holds(ready, t, ops)
        /\ Once(ready, t, ops) => Once(ready', t, ops)
  BY AfterRun, Kinds
<1>2. Holds(ready, t, {"remove"}) => Holds(ready', t, {"remove"})
  BY AfterRun
<1> QED  BY <1>1, <1>2, ReadFrame

\* The handler of a read finds the socket open and no other read.
LEMMA ReadToken ==
  ASSUME TypeOK, NEW s \in SessionId, ReadInv(s), NEW op \in ReadOp, Runs(op, s)
  PROVE  /\ \A o \in ReadOp : pending[s][o] = 0
         /\ is_open[s] /\ ~Outstanding(s, Connecting) /\ Once(ready, s, ReadOp)
         /\ ~(s > created)
<1>1. InReady(s, ReadOp)
  BY RunFacts DEF InReady
<1>2. Outstanding(s, ReadOp)
  BY <1>1 DEF Outstanding
<1>3. \A o \in ReadOp : pending[s][o] \in Nat
  BY Kinds DEF TypeOK
<1>4. \A o \in ReadOp : ~(pending[s][o] > 0)
  BY <1>1 DEF ReadInv, AtMostOne, IsPending
<1> QED  BY <1>2, <1>3, <1>4 DEF ReadInv, AtMostOne

\* The only read of a session.
LEMMA ReadRenewed ==
  ASSUME NEW t \in SessionId, NEW op \in ReadOp,
         \A o \in ReadOp : pending'[t][o] = IF o = op THEN 1 ELSE 0,
         ~Holds(ready', t, ReadOp)
  PROVE  AtMostOne(t, ReadOp)' /\ Outstanding(t, ReadOp)'
<1>1. Once(ready', t, ReadOp)
  BY DEF Once, Holds
<1>2. IsPending(t, ReadOp)'
  BY DEF IsPending
<1>3. /\ \A o \in ReadOp : pending'[t][o] <= 1
      /\ \A a, b \in ReadOp : pending'[t][a] > 0 /\ pending'[t][b] > 0 => a = b
  OBVIOUS
<1> QED  BY <1>1, <1>2, <1>3 DEF AtMostOne, Outstanding, InReady

\* No read of a session.
LEMMA ReadEnded ==
  ASSUME NEW t \in SessionId, \A o \in ReadOp : pending'[t][o] = 0, ~Holds(ready', t, ReadOp)
  PROVE  AtMostOne(t, ReadOp)' /\ ~Outstanding(t, ReadOp)'
<1>1. Once(ready', t, ReadOp)
  BY DEF Once, Holds
<1>2. ~IsPending(t, ReadOp)'
  BY DEF IsPending
<1>3. \A o \in ReadOp : pending'[t][o] <= 1 /\ ~(pending'[t][o] > 0)
  OBVIOUS
<1> QED  BY <1>1, <1>2, <1>3 DEF AtMostOne, Outstanding, InReady

Readers == \A t \in SessionId : ReadInv(t)

\* After a handler of a delivery the session has no delivery under way, its
\* read is as before, and there was none while it connected.
LEMMA LaneRun ==
  ASSUME ForwardInv, NEW s \in SessionId, ReadInv(s), NEW op \in LaneOp, Runs(op, s),
         ready' = Tail(ready) \/ ready' = close_session(Tail(ready), s)
  PROVE  /\ ~Holds(ready', s, Connecting) /\ ~Holds(ready', s, {"write"})
         /\ \A o \in LaneOp : pending[s][o] = 0
         /\ Holds(ready', s, ReadOp) <=> Holds(ready, s, ReadOp)
         /\ Once(ready', s, ReadOp)
         /\ Holds(ready, s, {"remove"}) => Holds(ready', s, {"remove"})
         /\ ready' = Tail(ready) \/ Holds(ready', s, {"remove"})
         /\ ~(s > created)
         /\ op \in Connecting =>
              ~Holds(ready', s, ReadOp) /\ \A o \in ReadOp : pending[s][o] = 0
         /\ op = "write" => is_open[s]
<1>1. TypeOK
  BY DEF ForwardInv
<1>2. (\A o \in LaneOp : pending[s][o] = 0) /\ m_udpPacketQueue[s] # << >>
  BY LaneToken
<1>3. ~(s > created)
  BY <1>2 DEF ForwardInv, LaneHasPacket
<1>4. Once(ready, s, LaneOp) /\ Once(ready, s, ReadOp)
  BY DEF ForwardInv, SingleWriter, AtMostOne, ReadInv
<1>5. op \notin ReadOp /\ op # "remove"
  BY Kinds
<1>6. /\ ~Holds(ready', s, LaneOp)
      /\ Holds(ready', s, ReadOp) <=> Holds(ready, s, ReadOp)
      /\ Once(ready', s, ReadOp)
      /\ Holds(ready, s, {"remove"}) => Holds(ready', s, {"remove"})
      /\ ready' = Tail(ready) \/ Holds(ready', s, {"remove"})
  BY <1>1, <1>4, <1>5, AfterRun, Kinds
<1>7. ~Holds(ready', s, Connecting) /\ ~Holds(ready', s, {"write"})
  BY <1>6, Kinds DEF Holds
<1>8. ASSUME op \in Connecting
      PROVE  ~Holds(ready', s, ReadOp) /\ \A o \in ReadOp : pending[s][o] = 0
  <2>1. Outstanding(s, Connecting)
    BY <1>1, <1>8, RunFacts DEF Outstanding, InReady
  <2>2. ~Outstanding(s, ReadOp)
    BY <2>1 DEF ReadInv
  <2>3. \A o \in ReadOp : pending[s][o] \in Nat
    BY <1>1, Kinds DEF TypeOK
  <2> QED  BY <1>6, <2>2, <2>3 DEF Outstanding, InReady, IsPending
<1>9. ASSUME op = "write" PROVE is_open[s]
  <2>1. Outstanding(s, {"write"})
    BY <1>1, <1>9, RunFacts DEF Outstanding, InReady
  <2> QED  BY <2>1 DEF ReadInv
<1> QED  BY <1>2, <1>3, <1>6, <1>7, <1>8, <1>9

\* A connection attempt is under way.
LEMMA ReadConnects ==
  ASSUME ForwardInv, Readers, NEW s \in SessionId, NEW op \in Connecting, Runs(op, s),
         NEW rest, async_connect(s, rest), UNCHANGED <<tableVars, deaf>>
  PROVE  Readers'
<1>1. TypeOK /\ op \in LaneOp /\ pending \in PendingType /\ ReadInv(s) /\ "connect" \in Op
  BY Kinds DEF ForwardInv, TypeOK, PendingType, Readers
<1>2. /\ ready' = Tail(ready) /\ pending' = Initiate(pending, s, "connect")
      /\ \A t \in SessionId : t # s => is_open'[t] = is_open[t]
  BY <1>1 DEF async_connect, TypeOK
<1>3. /\ ~Holds(ready', s, {"write"}) /\ ~Holds(ready', s, ReadOp) /\ ~(s > created)
      /\ \A o \in LaneOp : pending[s][o] = 0
      /\ \A o \in ReadOp : pending[s][o] = 0
  BY <1>1, <1>2, LaneRun
<1>4. /\ \A t \in SessionId, o \in Op : t # s => pending'[t][o] = pending[t][o]
      /\ \A o \in Op : o # "connect" => pending'[s][o] = pending[s][o]
      /\ pending'[s]["connect"] = pending[s]["connect"] + 1
  BY <1>1, <1>2, InitiateFacts
<1>5. ReadInv(s)'
  <2>1. \A o \in ReadOp : pending'[s][o] = 0
    BY <1>3, <1>4, Kinds
  <2>2. AtMostOne(s, ReadOp)' /\ ~Outstanding(s, ReadOp)'
    BY <1>3, <2>1, ReadEnded
  <2>3. pending'[s]["connect"] > 0 /\ pending'[s]["write"] = 0
    BY <1>3, <1>4, Kinds
  <2>4. Outstanding(s, Connecting)' /\ ~Outstanding(s, {"write"})'
    BY <1>3, <2>3, Kinds DEF Outstanding, IsPending, InReady
  <2> QED  BY <1>3, <2>2, <2>4 DEF ReadInv, tableVars
<1>6. ASSUME NEW t \in SessionId, t # s PROVE ReadInv(t)'
  <2>1. Mapped(t)' => Mapped(t)
    BY DEF Mapped, tableVars
  <2> QED  BY <1>1, <1>2, <1>4, <1>6, <2>1, ReadOthers DEF Readers, tableVars
<1> QED  BY <1>5, <1>6 DEF Readers

\* A delivery fails: the removal is posted.
LEMMA ReadLaneFails ==
  ASSUME ForwardInv, Readers, NEW s \in SessionId, NEW op \in LaneOp, Runs(op, s),
         CloseSession(s), UNCHANGED <<tableVars, socketVars, pending, deaf>>
  PROVE  Readers'
<1> USE DEF tableVars, socketVars
<1>1. TypeOK /\ ReadInv(s) /\ ready' = close_session(Tail(ready), s)
  BY DEF ForwardInv, Readers, CloseSession
<1>2. \A t \in SessionId : Mapped(t)' => Mapped(t)
  BY DEF Mapped
<1>3. ReadInv(s)'
  <2>1. /\ ~Holds(ready', s, Connecting) /\ ~Holds(ready', s, {"write"})
        /\ Holds(ready', s, ReadOp) <=> Holds(ready, s, ReadOp)
        /\ Once(ready', s, ReadOp) /\ ~(s > created)
        /\ \A o \in LaneOp : pending[s][o] = 0
    BY <1>1, LaneRun
  <2>2. Holds(ready', s, {"remove"})
    <3>1. Tail(ready) \in Seq(Handler)
      BY LaneToken
    <3> QED  BY <1>1, <3>1, CloseFacts
  <2>3. /\ IsPending(s, ReadOp)' <=> IsPending(s, ReadOp)
        /\ ~IsPending(s, Connecting)' /\ ~IsPending(s, {"write"})'
    BY <2>1, Kinds DEF IsPending
  <2>4. AtMostOne(s, ReadOp)'
    BY <1>1, <2>1, <2>3 DEF ReadInv, AtMostOne, InReady
  <2>5. /\ Outstanding(s, ReadOp)' <=> Outstanding(s, ReadOp)
        /\ ~Outstanding(s, Connecting)' /\ ~Outstanding(s, {"write"})'
    BY <2>1, <2>3 DEF Outstanding, InReady
  <2> QED  BY <1>1, <2>1, <2>2, <2>4, <2>5 DEF ReadInv, InReady
<1>4. ASSUME NEW t \in SessionId, t # s PROVE ReadInv(t)'
  BY <1>1, <1>2, <1>4, ReadOthers DEF Readers
<1> QED  BY <1>3, <1>4 DEF Readers

\* Connected: a header is read.
LEMMA ReadConnected ==
  ASSUME ForwardInv, Readers, NEW s \in SessionId, Runs("connect", s), is_open[s],
         pending' = start_read_from_tcp(
                      deliver_to_tcp_peer(pending, s, m_udpPacketQueue[s]), s),
         ready' = Tail(ready), UNCHANGED <<tableVars, socketVars, deaf>>
  PROVE  Readers'
<1> USE DEF tableVars, socketVars
<1>1. /\ TypeOK /\ "connect" \in LaneOp /\ "connect" \in Connecting
      /\ pending \in PendingType /\ ReadInv(s)
      /\ "write" \in Op /\ "header" \in Op /\ "header" # "write"
  BY Kinds DEF ForwardInv, TypeOK, PendingType, Readers
<1>2. PICK pend : pend = Initiate(pending, s, "write")
  OBVIOUS
<1>3. pending' = Initiate(pend, s, "header")
  <2>1. m_udpPacketQueue[s] # << >>
    BY <1>1, LaneToken
  <2> QED  BY <1>2, <2>1 DEF deliver_to_tcp_peer, start_read_from_tcp
<1>4. /\ pend \in PendingType
      /\ \A t \in SessionId, o \in Op : t # s \/ o # "write" => pend[t][o] = pending[t][o]
  <2>1. /\ Initiate(pending, s, "write") \in PendingType
        /\ \A t \in SessionId, o \in Op :
             t # s \/ o # "write" => Initiate(pending, s, "write")[t][o] = pending[t][o]
    BY ONLY <1>1, s \in SessionId, InitiateFacts
  <2> QED  BY ONLY <1>2, <2>1
<1>5. /\ \A t \in SessionId, o \in Op : t # s \/ o # "header" => pending'[t][o] = pend[t][o]
      /\ pending'[s]["header"] = pend[s]["header"] + 1
  <2>1. /\ \A t \in SessionId, o \in Op :
             t # s \/ o # "header" => Initiate(pend, s, "header")[t][o] = pend[t][o]
        /\ Initiate(pend, s, "header")[s]["header"] = pend[s]["header"] + 1
    BY ONLY <1>1, <1>4, s \in SessionId, InitiateFacts
  <2> QED  BY ONLY <1>3, <2>1
<1>6. \A t \in SessionId, o \in Op : t # s => pending'[t][o] = pending[t][o]
  BY <1>4, <1>5
<1>7. \A t \in SessionId : Mapped(t)' => Mapped(t)
  BY DEF Mapped
<1>8. ReadInv(s)'
  <2>1. /\ ~Holds(ready', s, Connecting) /\ ~Holds(ready', s, ReadOp) /\ ~(s > created)
        /\ \A o \in LaneOp : pending[s][o] = 0
        /\ \A o \in ReadOp : pending[s][o] = 0
    BY <1>1, LaneRun
  <2>2. \A o \in ReadOp : pending'[s][o] = IF o = "header" THEN 1 ELSE 0
    BY <1>1, <1>4, <1>5, <2>1, Kinds
  <2>3. AtMostOne(s, ReadOp)' /\ Outstanding(s, ReadOp)'
    BY <2>1, <2>2, ReadRenewed, Kinds
  <2>4. \A o \in Connecting : pending'[s][o] = 0
    BY <1>4, <1>5, <2>1, Kinds
  <2>5. ~Outstanding(s, Connecting)'
    BY <2>1, <2>4 DEF Outstanding, IsPending, InReady
  <2> QED  BY <2>1, <2>3, <2>5 DEF ReadInv
<1>9. ASSUME NEW t \in SessionId, t # s PROVE ReadInv(t)'
  BY <1>1, <1>6, <1>7, <1>9, ReadOthers DEF Readers
<1> QED  BY <1>8, <1>9 DEF Readers

\* Written: on an open socket, so that the next packet is written too.
LEMMA ReadWritten ==
  ASSUME ForwardInv, Readers, NEW s \in SessionId, Runs("write", s), NEW q,
         \/ pending' = pending
         \/ pending' = deliver_to_tcp_peer(pending, s, q),
         ready' = Tail(ready), UNCHANGED <<tableVars, socketVars, deaf>>
  PROVE  Readers'
<1> USE DEF tableVars, socketVars
<1>1. /\ TypeOK /\ "write" \in LaneOp /\ pending \in PendingType /\ ReadInv(s) /\ "write" \in Op
  BY Kinds DEF ForwardInv, TypeOK, PendingType, Readers
<1>2. /\ ~Holds(ready', s, Connecting) /\ ~(s > created) /\ is_open[s]
      /\ Holds(ready', s, ReadOp) <=> Holds(ready, s, ReadOp)
      /\ Once(ready', s, ReadOp)
      /\ Holds(ready, s, {"remove"}) => Holds(ready', s, {"remove"})
      /\ \A o \in LaneOp : pending[s][o] = 0
  BY <1>1, LaneRun
<1>3. pending' = pending \/ pending' = Initiate(pending, s, "write")
  BY <1>2 DEF deliver_to_tcp_peer
<1>4. \A t \in SessionId, o \in Op : t # s \/ o # "write" => pending'[t][o] = pending[t][o]
  BY <1>1, <1>3, InitiateFacts
<1>5. \A t \in SessionId : Mapped(t)' => Mapped(t)
  BY DEF Mapped
<1>6. ReadInv(s)'
  <2>1. /\ \A o \in ReadOp : pending'[s][o] = pending[s][o]
        /\ \A o \in Connecting : pending'[s][o] = 0
    BY <1>2, <1>4, Kinds
  <2>2. IsPending(s, ReadOp)' <=> IsPending(s, ReadOp)
    BY <2>1 DEF IsPending
  <2>3. ~Outstanding(s, Connecting)'
    BY <1>2, <2>1 DEF Outstanding, IsPending, InReady
  <2>4. ~Outstanding(s, Connecting)
    <3>1. Once(ready, s, LaneOp)
      BY DEF ForwardInv, SingleWriter, AtMostOne
    <3>2. ~Holds(ready, s, Connecting)
      BY <1>1, <1>2, AfterRun, Kinds
    <3> QED  BY <1>2, <3>2, Kinds DEF Outstanding, IsPending, InReady
  <2>5. Outstanding(s, ReadOp)' <=> Outstanding(s, ReadOp)
    BY <1>2, <2>2 DEF Outstanding, InReady
  <2>6. AtMostOne(s, ReadOp)'
    BY <1>1, <1>2, <2>1, <2>2 DEF ReadInv, AtMostOne, InReady
  <2> QED  BY <1>1, <1>2, <1>5, <2>3, <2>4, <2>5, <2>6 DEF ReadInv, InReady
<1>7. ASSUME NEW t \in SessionId, t # s PROVE ReadInv(t)'
  BY <1>1, <1>4, <1>5, <1>7, ReadOthers DEF Readers
<1> QED  BY <1>6, <1>7 DEF Readers

\* One read follows another.
LEMMA ReadGoesOn ==
  ASSUME ForwardInv, Readers, NEW s \in SessionId, NEW op \in ReadOp, Runs(op, s),
         NEW next \in ReadOp, pending' = Initiate(pending, s, next),
         ready' = Tail(ready), UNCHANGED <<tableVars, socketVars, deaf>>
  PROVE  Readers'
<1> USE DEF tableVars, socketVars
<1>1. TypeOK /\ pending \in PendingType /\ ReadInv(s) /\ next \in Op
  BY Kinds DEF ForwardInv, TypeOK, PendingType, Readers
<1>2. /\ \A o \in ReadOp : pending[s][o] = 0
      /\ is_open[s] /\ ~Outstanding(s, Connecting) /\ Once(ready, s, ReadOp) /\ ~(s > created)
  BY <1>1, ReadToken
<1>3. /\ ~Holds(ready', s, ReadOp)
      /\ Holds(ready', s, Connecting) <=> Holds(ready, s, Connecting)
  BY <1>1, <1>2, AfterRun, Kinds
<1>4. /\ \A t \in SessionId, o \in Op : t # s \/ o # next => pending'[t][o] = pending[t][o]
      /\ pending'[s][next] = pending[s][next] + 1
  <2>1. /\ \A t \in SessionId, o \in Op :
             t # s \/ o # next => Initiate(pending, s, next)[t][o] = pending[t][o]
        /\ Initiate(pending, s, next)[s][next] = pending[s][next] + 1
    BY ONLY <1>1, s \in SessionId, InitiateFacts
  <2> QED  BY <2>1
<1>5. \A t \in SessionId : Mapped(t)' => Mapped(t)
  BY DEF Mapped
<1>6. ReadInv(s)'
  <2>1. \A o \in ReadOp : pending'[s][o] = IF o = next THEN 1 ELSE 0
    BY <1>2, <1>4, Kinds
  <2>2. AtMostOne(s, ReadOp)' /\ Outstanding(s, ReadOp)'
    BY <1>3, <2>1, ReadRenewed
  <2>3. \A o \in Connecting : pending'[s][o] = pending[s][o]
    BY <1>4, Kinds
  <2>4. ~Outstanding(s, Connecting)'
    BY <1>2, <1>3, <2>3 DEF Outstanding, IsPending, InReady
  <2> QED  BY <1>2, <2>2, <2>4 DEF ReadInv
<1>7. ASSUME NEW t \in SessionId, t # s PROVE ReadInv(t)'
  BY <1>1, <1>4, <1>5, <1>7, ReadOthers DEF Readers
<1> QED  BY <1>6, <1>7 DEF Readers

\* The last read of a session: it is deaf, or its removal is posted.
LEMMA ReadStops ==
  ASSUME ForwardInv, Readers, NEW s \in SessionId, NEW op \in ReadOp, Runs(op, s),
         \/ ready' = Tail(ready) /\ deaf'[s]
         \/ ready' = close_session(Tail(ready), s)
         \/ ready' = close_session(close_session(Tail(ready), s), s),
         \A t \in SessionId : deaf[t] => deaf'[t],
         UNCHANGED <<tableVars, socketVars, pending>>
  PROVE  Readers'
<1> USE DEF tableVars, socketVars
<1>1. TypeOK /\ ReadInv(s)
  BY DEF ForwardInv, Readers
<1>2. /\ \A o \in ReadOp : pending[s][o] = 0
      /\ is_open[s] /\ Once(ready, s, ReadOp) /\ ~(s > created)
  BY <1>1, ReadToken
<1>3. ~Holds(ready', s, ReadOp)
  BY <1>1, <1>2, AfterRun, Kinds
<1>4. deaf'[s] \/ Holds(ready', s, {"remove"})
  <2>1. Tail(ready) \in Seq(Handler)
    BY <1>1, RunFacts
  <2>2. /\ close_session(Tail(ready), s) \in Seq(Handler)
        /\ Holds(close_session(Tail(ready), s), s, {"remove"})
    BY <2>1, CloseFacts
  <2>3. Holds(close_session(close_session(Tail(ready), s), s), s, {"remove"})
    BY <2>2, CloseFacts
  <2> QED  BY <2>2, <2>3
<1>5. \A t \in SessionId : Mapped(t)' => Mapped(t)
  BY DEF Mapped
<1>6. ReadInv(s)'
  <2>1. AtMostOne(s, ReadOp)' /\ ~Outstanding(s, ReadOp)'
    BY <1>2, <1>3, ReadEnded
  <2> QED  BY <1>2, <1>4, <2>1 DEF ReadInv, InReady
<1>7. ASSUME NEW t \in SessionId, t # s PROVE ReadInv(t)'
  BY <1>1, <1>5, <1>7, ReadOthers DEF Readers
<1> QED  BY <1>6, <1>7 DEF Readers

\* A removal: the session that leaves ready is then out of the table.
LEMMA ReadRemoved ==
  ASSUME ForwardInv, Readers, NEW s \in SessionId, handle_connection_failed(s)
  PROVE  Readers'
<1>1. TypeOK /\ TableConsistent /\ Readers
  BY DEF ForwardInv
<1>2. /\ Runs("remove", s) /\ ready' = Tail(ready)
      /\ remove_session(m_udpTuple[s])
      /\ UNCHANGED <<created, is_open, pending, deaf>>
  BY DEF handle_connection_failed, socketVars
<1>3. \A t \in SessionId : Mapped(t)' => Mapped(t)
  BY <1>1, <1>2 DEF Mapped, remove_session, TypeOK, SessionId, NoSession
<1>4. ~Mapped(s)'
  BY <1>1, <1>2 DEF Mapped, remove_session, TableConsistent, TypeOK, SessionId, NoSession
<1>5. "remove" \notin ReadOp /\ "remove" \notin Connecting /\ "remove" \notin {"write"}
  BY Kinds
<1>6. ReadInv(s)'
  <2>1. \A ops \in {ReadOp, Connecting, {"write"}} :
          /\ Holds(ready', s, ops) <=> Holds(ready, s, ops)
          /\ Once(ready, s, ops) => Once(ready', s, ops)
    BY <1>1, <1>2, <1>5, AfterRun
  <2> QED  BY <1>1, <1>2, <1>4, <2>1, ReadFrame DEF Readers
<1>7. ASSUME NEW t \in SessionId, t # s PROVE ReadInv(t)'
  BY <1>1, <1>2, <1>3, <1>7, ReadOthers DEF Readers
<1> QED  BY <1>6, <1>7 DEF Readers

\* A receive completes.
LEMMA ReadCompleteReceive ==
  ASSUME ForwardInv, Readers, CompleteReceive
  PROVE  Readers'
<1> USE DEF tableVars, socketVars
<1>1. /\ ready \in Seq(Handler) /\ ready' = Append(ready, HandlerOf("recv", NoSession))
      /\ UNCHANGED <<tableVars, socketVars, pending, deaf>>
  BY DEF CompleteReceive, ForwardInv, TypeOK
<1>2. /\ HandlerOf("recv", NoSession) \in Handler
      /\ \A t \in SessionId : HandlerOf("recv", NoSession).s # t
  BY ConstantsAssumption DEF HandlerOf, Handler, SessionId, NoSession
<1>3. ASSUME NEW t \in SessionId, NEW ops
      PROVE  /\ Holds(ready', t, ops) <=> Holds(ready, t, ops)
             /\ Once(ready, t, ops) => Once(ready', t, ops)
  BY <1>1, <1>2, AppendHolds
<1>4. \A t \in SessionId : Mapped(t)' => Mapped(t)
  BY <1>1 DEF Mapped
<1>5. ASSUME NEW t \in SessionId PROVE ReadInv(t)'
  BY <1>1, <1>3, <1>4, ReadFrame DEF Readers
<1> QED  BY <1>5 DEF Readers

\* An operation completes: what was pending is ready.
LEMMA ReadComplete ==
  ASSUME ForwardInv, Readers, NEW s \in SessionId, NEW op \in Op, Complete(s, op)
  PROVE  Readers'
<1> USE DEF tableVars, socketVars
<1>1. /\ TypeOK /\ ready \in Seq(Handler) /\ ready' = Append(ready, HandlerOf(op, s))
      /\ pending[s][op] > 0 /\ pending' = [pending EXCEPT ![s][op] = @ - 1]
      /\ UNCHANGED <<tableVars, socketVars, deaf>>
  BY DEF Complete, ForwardInv, TypeOK
<1>2. /\ HandlerOf(op, s) \in Handler /\ HandlerOf(op, s).s = s /\ HandlerOf(op, s).h = op
  BY DEF HandlerOf, Handler
<1>3. ASSUME NEW t, NEW ops
      PROVE  /\ Holds(ready', t, ops) <=> Holds(ready, t, ops) \/ (t = s /\ op \in ops)
             /\ Once(ready, t, ops) /\ (Holds(ready, t, ops) => ~(t = s /\ op \in ops))
                  => Once(ready', t, ops)
  BY <1>1, <1>2, AppendHolds
<1>4. \A t \in SessionId, o \in Op :
        /\ pending[t][o] \in Nat
        /\ pending'[t][o] = IF t = s /\ o = op THEN pending[t][o] - 1 ELSE pending[t][o]
  BY <1>1 DEF TypeOK
<1>5. \A t \in SessionId : Mapped(t)' => Mapped(t)
  BY <1>1 DEF Mapped
<1>6. ASSUME NEW t \in SessionId, t # s PROVE ReadInv(t)'
  <2>1. \A ops \in {ReadOp, Connecting, {"write"}} :
          /\ Holds(ready', t, ops) <=> Holds(ready, t, ops)
          /\ Once(ready, t, ops) => Once(ready', t, ops)
    BY <1>3, <1>6
  <2>2. Holds(ready, t, {"remove"}) => Holds(ready', t, {"remove"})
    BY <1>3
  <2> QED  BY <1>1, <1>4, <1>5, <1>6, <2>1, <2>2, ReadFrame DEF Readers
<1>7. ReadInv(s)'
  <2>1. ReadInv(s)
    BY DEF Readers
  <2>2. ASSUME NEW ops \in {ReadOp, Connecting, {"write"}}
        PROVE  Outstanding(s, ops)' => Outstanding(s, ops)
    <3>1. ops \subseteq Op
      BY Kinds
    <3>2. CASE op \in ops
      BY <1>1, <3>2 DEF Outstanding, IsPending
    <3>3. CASE op \notin ops
      <4>1. Holds(ready', s, ops) => Holds(ready, s, ops)
        BY <1>3, <3>3
      <4>2. IsPending(s, ops)' => IsPending(s, ops)
        BY <1>4, <3>1, <3>3 DEF IsPending
      <4> QED  BY <4>1, <4>2 DEF Outstanding, InReady
    <3> QED  BY <3>2, <3>3
  <2>3. ASSUME NEW ops \in {ReadOp, Connecting, {"write"}}
        PROVE  Outstanding(s, ops) => Outstanding(s, ops)'
    <3>1. ops \subseteq Op
      BY Kinds
    <3>2. CASE op \in ops
      BY <1>3, <3>2 DEF Outstanding, InReady
    <3>3. CASE op \notin ops
      <4>1. Holds(ready, s, ops) => Holds(ready', s, ops)
        BY <1>3
      <4>2. IsPending(s, ops) => IsPending(s, ops)'
        BY <1>4, <3>1, <3>3 DEF IsPending
      <4> QED  BY <4>1, <4>2 DEF Outstanding, InReady
    <3> QED  BY <3>2, <3>3
  <2>4. AtMostOne(s, ReadOp)'
    <3>1. AtMostOne(s, ReadOp) /\ ReadOp \subseteq Op
      BY <2>1, Kinds DEF ReadInv
    <3>2. CASE op \in ReadOp
      <4>1. ~Holds(ready, s, ReadOp) /\ Once(ready, s, ReadOp)
        BY <1>1, <3>1, <3>2 DEF AtMostOne, IsPending, InReady
      <4>2. \A o \in ReadOp : pending'[s][o] = 0
        BY <1>1, <1>4, <3>1, <3>2 DEF AtMostOne
      <4>3. Once(ready', s, ReadOp)
        BY <1>3, <4>1
      <4> QED  BY <4>2, <4>3 DEF AtMostOne, IsPending
    <3>3. CASE op \notin ReadOp
      <4>1. \A o \in ReadOp : pending'[s][o] = pending[s][o]
        BY <1>4, <3>1, <3>3
      <4>2. /\ Holds(ready', s, ReadOp) <=> Holds(ready, s, ReadOp)
            /\ Once(ready, s, ReadOp) => Once(ready', s, ReadOp)
        BY <1>3, <3>3
      <4>3. IsPending(s, ReadOp)' <=> IsPending(s, ReadOp)
        BY <4>1 DEF IsPending
      <4> QED  BY <3>1, <4>1, <4>2, <4>3 DEF AtMostOne, InReady
    <3> QED  BY <3>2, <3>3
  <2>5. Holds(ready, s, {"remove"}) => Holds(ready', s, {"remove"})
    BY <1>3
  <2> QED  BY <1>1, <1>5, <2>1, <2>2, <2>3, <2>4, <2>5 DEF ReadInv, InReady
<1> QED  BY <1>6, <1>7 DEF Readers

\* A packet is queued: an idle session writes it or, not yet open, resolves.
LEMMA ReadAddPacket ==
  ASSUME ForwardInv, Readers, NEW s \in SessionId, NEW d \in Packet, Runs("recv", NoSession),
         add_router_packet(s, d), ready' = Tail(ready), UNCHANGED <<socketVars, deaf>>,
         \A t \in SessionId : t > created' => t > created,
         \A t \in SessionId : Mapped(t)' => Mapped(t) \/ (t = s /\ s > created)
  PROVE  Readers'
<1> USE DEF socketVars
<1>1. TypeOK /\ pending \in PendingType /\ ReadInv(s) /\ SessionInv(s)
  BY ForwardInvParts DEF ForwardInv, TypeOK, PendingType, Readers
<1>2. PICK q : q = Append(m_udpPacketQueue[s], d)
  OBVIOUS
<1>3. /\ m_udpPacketQueue[s] = << >> => pending' = deliver_to_tcp_peer(pending, s, q)
      /\ m_udpPacketQueue[s] # << >> => pending' = pending
      /\ q # << >>
  <2>1. q # << >>
    BY <1>1, <1>2, AppendElements, SMTT(30) DEF TypeOK
  <2> QED  BY <1>2, <2>1 DEF add_router_packet
<1>4. s # NoSession /\ \A t \in SessionId : t # NoSession
  BY DEF SessionId, NoSession
<1>5. /\ \A t \in SessionId, ops \in {ReadOp, Connecting, {"write"}} :
           /\ Holds(ready', t, ops) <=> Holds(ready, t, ops)
           /\ Once(ready, t, ops) => Once(ready', t, ops)
      /\ \A t \in SessionId : Holds(ready, t, {"remove"}) => Holds(ready', t, {"remove"})
  BY <1>1, <1>4, AfterRun, Kinds
<1>6. "resolve" \in Op /\ "write" \in Op /\ "resolve" # "write"
  BY Kinds
<1>7. CASE m_udpPacketQueue[s] # << >>
  <2>1. ~(s > created)
    BY <1>7 DEF ForwardInv, LaneHasPacket
  <2>2. ASSUME NEW t \in SessionId PROVE ReadInv(t)'
    BY <1>3, <1>5, <1>7, <2>1, ReadFrame DEF Readers
  <2> QED  BY <2>2 DEF Readers
<1>8. CASE m_udpPacketQueue[s] = << >>
  <2>1. ~Outstanding(s, LaneOp)
    BY <1>1, <1>8 DEF SessionInv
  <2>2. ~Outstanding(s, Connecting)
    BY <2>1, Kinds DEF Outstanding, IsPending, InReady, Holds
  <2>3. \A o \in LaneOp : pending[s][o] = 0
    <3>1. \A o \in LaneOp : pending[s][o] \in Nat
      BY <1>1, Kinds DEF TypeOK
    <3> QED  BY <2>1, <3>1 DEF Outstanding, IsPending
  <2>4. PICK op \in {"resolve", "write"} :
          /\ pending' = Initiate(pending, s, op)
          /\ op = IF is_open[s] THEN "write" ELSE "resolve"
    BY <1>3, <1>8 DEF deliver_to_tcp_peer, start
  <2>5. /\ \A t \in SessionId, o \in Op : t # s \/ o # op => pending'[t][o] = pending[t][o]
        /\ pending'[s][op] = pending[s][op] + 1
    <3>1. op \in Op
      BY <1>6
    <3>2. /\ \A t \in SessionId, o \in Op :
               t # s \/ o # op => Initiate(pending, s, op)[t][o] = pending[t][o]
          /\ Initiate(pending, s, op)[s][op] = pending[s][op] + 1
      BY ONLY <1>1, <3>1, s \in SessionId, InitiateFacts, ZenonT(60)
    <3> QED  BY <2>4, <3>2
  <2>6. ASSUME NEW t \in SessionId, t # s PROVE ReadInv(t)'
    BY <1>5, <2>5, <2>6, ReadFrame DEF Readers
  <2>7. \A o \in ReadOp : pending'[s][o] = pending[s][o]
    BY <2>5, Kinds
  <2>8. /\ Holds(ready', s, ReadOp) <=> Holds(ready, s, ReadOp)
        /\ Once(ready, s, ReadOp) => Once(ready', s, ReadOp)
        /\ Holds(ready', s, Connecting) <=> Holds(ready, s, Connecting)
        /\ Holds(ready', s, {"write"}) <=> Holds(ready, s, {"write"})
    BY <1>5
  <2>9. IsPending(s, ReadOp)' <=> IsPending(s, ReadOp)
    BY <2>7 DEF IsPending
  <2>10. /\ AtMostOne(s, ReadOp)'
         /\ Outstanding(s, ReadOp)' <=> Outstanding(s, ReadOp)
    BY <1>1, <2>7, <2>8, <2>9 DEF ReadInv, AtMostOne, InReady, Outstanding
  <2>11. CASE is_open[s]
    <3>1. \A o \in Connecting : pending'[s][o] = 0
      BY <2>3, <2>4, <2>5, <2>11, Kinds
    <3>2. ~Outstanding(s, Connecting)'
      BY <2>2, <2>8, <3>1 DEF Outstanding, IsPending, InReady
    <3>3. ~(s > created)
      BY <1>1, <2>11 DEF ReadInv
    <3>4. ReadInv(s)'
      BY <1>1, <1>5, <2>2, <2>10, <2>11, <3>2, <3>3 DEF ReadInv, InReady
    <3> QED  BY <2>6, <3>4 DEF Readers
  <2>12. CASE ~is_open[s]
    <3>1. pending'[s]["resolve"] > 0 /\ pending'[s]["write"] = 0
      BY <1>6, <2>3, <2>4, <2>5, <2>12, Kinds
    <3>2. Outstanding(s, Connecting)'
      BY <3>1, Kinds DEF Outstanding, IsPending
    <3>3. ~Holds(ready, s, {"write"})
      BY <2>1, Kinds DEF Outstanding, InReady, Holds
    <3>4. ~Outstanding(s, {"write"})'
      BY <2>8, <3>1, <3>3 DEF Outstanding, IsPending, InReady
    <3>5. ~Outstanding(s, ReadOp)
      BY <1>1, <2>12 DEF ReadInv
    <3>6. ReadInv(s)'
      BY <2>10, <2>12, <3>2, <3>4, <3>5 DEF ReadInv
    <3> QED  BY <2>6, <3>6 DEF Readers
  <2> QED  BY <2>11, <2>12
<1> QED  BY <1>7, <1>8

\* A datagram, or an error of the receive.
LEMMA ReadReceive ==
  ASSUME ForwardInv, Readers, handle_receive
  PROVE  Readers'
<1>1. /\ TypeOK /\ TableConsistent /\ created <= arrived
      /\ MaxDatagrams \in Nat /\ arrived \in Nat /\ created \in Nat
  BY ConstantsAssumption DEF ForwardInv, CreatedByDatagram, TypeOK
<1>2. /\ Runs("recv", NoSession) /\ ready' = Tail(ready)
      /\ UNCHANGED <<socketVars, deaf>>
  BY DEF handle_receive
<1>3. ASSUME arrived < MaxDatagrams, NEW p \in Peers, created' = created + 1,
             add_session(created + 1, p), add_router_packet(created + 1, arrived + 1)
      PROVE  Readers'
  <2>1. created + 1 \in SessionId /\ arrived + 1 \in Packet
    BY <1>1, <1>3 DEF SessionId, Packet
  <2>2. \A t \in SessionId : t > created' => t > created
    BY <1>1, <1>3 DEF SessionId
  <2>3. \A t \in SessionId : Mapped(t)' => Mapped(t) \/ t = created + 1
    BY <1>1, <1>3, <2>1 DEF Mapped, add_session, TypeOK
  <2>4. created + 1 > created
    BY <1>1
  <2> QED  BY <1>2, <1>3, <2>1, <2>2, <2>3, <2>4, ReadAddPacket
<1>4. ASSUME arrived < MaxDatagrams, NEW p \in Peers, NEW s \in SessionsOf(p),
             add_router_packet(s, arrived + 1), UNCHANGED tableVars
      PROVE  Readers'
  <2>1. s \in SessionId /\ arrived + 1 \in Packet
    BY <1>1, <1>4 DEF SessionsOf, Packet
  <2>2. \A t \in SessionId : (Mapped(t)' => Mapped(t)) /\ (t > created' => t > created)
    BY <1>4 DEF Mapped, tableVars
  <2> QED  BY <1>2, <1>4, <2>1, <2>2, ReadAddPacket
<1>5. ASSUME remove_session(m_remoteEndpoint), UNCHANGED <<created, pending>>
      PROVE  Readers'
  <2>1. \A t \in SessionId : Mapped(t)' => Mapped(t)
    BY <1>1, <1>5 DEF Mapped, remove_session, TypeOK, SessionId, NoSession
  <2>2. ASSUME NEW t \in SessionId PROVE ReadInv(t)'
    <3>1. t # NoSession
      BY DEF SessionId, NoSession
    <3> QED  BY <1>1, <1>2, <1>5, <2>1, <3>1, ReadOthers DEF Readers, socketVars
  <2> QED  BY <2>2 DEF Readers
<1> QED  BY <1>3, <1>4, <1>5 DEF handle_receive, deliver_from_udp_peer

\* Initially nothing is open, pending or ready.
LEMMA ReadersInit == Init => Readers
<1> SUFFICES ASSUME Init, NEW t \in SessionId PROVE ReadInv(t)
  BY DEF Readers
<1>1. \A o \in Op : pending[t][o] = 0
  BY DEF Init
<1>2. ready = << >> /\ ~is_open[t] /\ ~Mapped(t)
  BY DEF Init, Mapped, SessionId, NoSession
<1>3. \A ops : ~Holds(ready, t, ops) /\ Once(ready, t, ops)
  BY <1>2 DEF Holds, Once
<1>4. \A ops \in {ReadOp, {"write"}} : ~Outstanding(t, ops) /\ ~IsPending(t, ops)
  BY <1>1, <1>3, Kinds DEF Outstanding, IsPending, InReady
<1>5. AtMostOne(t, ReadOp)
  BY <1>1, <1>3, <1>4, Kinds DEF AtMostOne
<1> QED  BY <1>2, <1>4, <1>5 DEF ReadInv

\* Every step keeps the readers, given ForwardInv.
LEMMA ReadersNext == ForwardInv /\ Readers /\ [Next]_vars => Readers'
<1> SUFFICES ASSUME ForwardInv, Readers, [Next]_vars PROVE Readers'
  OBVIOUS
<1>1. CASE handle_receive
  BY <1>1, ReadReceive
<1>2. ASSUME NEW s \in SessionId, handle_resolve(s) PROVE Readers'
  <2>1. Runs("resolve", s) /\ "resolve" \in Connecting /\ "resolve" \in LaneOp
    BY <1>2, Kinds DEF handle_resolve
  <2>2. UNCHANGED <<tableVars, deaf>>
    BY <1>2 DEF handle_resolve
  <2>3. \/ \E rest : async_connect(s, rest)
        \/ CloseSession(s) /\ UNCHANGED <<socketVars, pending>>
    BY <1>2 DEF handle_resolve
  <2> QED  BY <2>1, <2>2, <2>3, ReadConnects, ReadLaneFails
<1>3. ASSUME NEW s \in SessionId, handle_connection(s) PROVE Readers'
  <2>1. Runs("connect", s) /\ "connect" \in Connecting /\ "connect" \in LaneOp
    BY <1>3, Kinds DEF handle_connection
  <2>2. UNCHANGED <<tableVars, deaf>>
    BY <1>3 DEF handle_connection
  <2>3. \/ /\ is_open[s]
           /\ pending' = start_read_from_tcp(
                           deliver_to_tcp_peer(pending, s, m_udpPacketQueue[s]), s)
           /\ ready' = Tail(ready) /\ UNCHANGED socketVars
        \/ async_connect(s, endpoints[s] - 1)
        \/ CloseSession(s) /\ UNCHANGED <<socketVars, pending>>
    BY <1>3 DEF handle_connection
  <2> QED  BY <2>1, <2>2, <2>3, ReadConnected, ReadConnects, ReadLaneFails
<1>4. ASSUME NEW s \in SessionId, handle_deliver_tcp(s) PROVE Readers'
  <2>1. Runs("write", s) /\ "write" \in LaneOp
    BY <1>4, Kinds DEF handle_deliver_tcp
  <2>2. UNCHANGED <<tableVars, socketVars, deaf>>
    BY <1>4 DEF handle_deliver_tcp
  <2>3. \/ /\ \/ pending' = pending
              \/ pending' = deliver_to_tcp_peer(pending, s, Tail(m_udpPacketQueue[s]))
           /\ ready' = Tail(ready)
        \/ CloseSession(s) /\ UNCHANGED pending
    BY <1>4 DEF handle_deliver_tcp
  <2> QED  BY <2>1, <2>2, <2>3, ReadWritten, ReadLaneFails
<1>5. ASSUME NEW s \in SessionId, handle_read_header(s) PROVE Readers'
  <2>1. Runs("header", s) /\ "header" \in ReadOp /\ "payload" \in ReadOp
    BY <1>5, Kinds DEF handle_read_header
  <2>2. UNCHANGED <<tableVars, socketVars, deaf>>
    BY <1>5 DEF handle_read_header
  <2>3. \/ pending' = Initiate(pending, s, "payload") /\ ready' = Tail(ready)
        \/ ready' = close_session(Tail(ready), s) /\ UNCHANGED pending
    BY <1>5 DEF handle_read_header, CloseSession
  <2> QED  BY <2>1, <2>2, <2>3, ReadGoesOn, ReadStops
<1>6. ASSUME NEW s \in SessionId, handle_read_payload(s) PROVE Readers'
  <2>1. Runs("payload", s) /\ "payload" \in ReadOp /\ "header" \in ReadOp
    BY <1>6, Kinds DEF handle_read_payload
  <2>2. UNCHANGED <<tableVars, socketVars>> /\ deaf \in [SessionId -> BOOLEAN]
    BY <1>6 DEF handle_read_payload, ForwardInv, TypeOK
  <2>3. \/ pending' = Initiate(pending, s, "header") /\ ready' = Tail(ready) /\ UNCHANGED deaf
        \/ ready' = Tail(ready) /\ deaf' = [deaf EXCEPT ![s] = TRUE] /\ UNCHANGED pending
        \/ /\ \/ ready' = close_session(Tail(ready), s)
              \/ ready' = close_session(close_session(Tail(ready), s), s)
           /\ UNCHANGED <<pending, deaf>>
    BY <1>6 DEF handle_read_payload, CloseSession, start_read_from_tcp
  <2>4. CASE ready' = Tail(ready) /\ deaf' = [deaf EXCEPT ![s] = TRUE] /\ UNCHANGED pending
    <3>1. deaf'[s] /\ \A t \in SessionId : deaf[t] => deaf'[t]
      BY <2>2, <2>4
    <3> QED  BY <2>1, <2>2, <2>4, <3>1, ReadStops
  <2> QED  BY <2>1, <2>2, <2>3, <2>4, ReadGoesOn, ReadStops
<1>7. ASSUME NEW s \in SessionId, handle_connection_failed(s) PROVE Readers'
  BY <1>7, ReadRemoved
<1>8. CASE CompleteReceive
  BY <1>8, ReadCompleteReceive
<1>9. ASSUME NEW s \in SessionId, NEW op \in Op, Complete(s, op) PROVE Readers'
  BY <1>9, ReadComplete
<1>10. CASE UNCHANGED vars
  <2>1. ASSUME NEW t \in SessionId PROVE ReadInv(t)'
    <3>1. UNCHANGED <<m_udpSessions, created, is_open, pending, ready, deaf>>
      BY <1>10 DEF vars, tableVars, socketVars
    <3>2. Mapped(t)' => Mapped(t)
      BY <3>1 DEF Mapped
    <3> QED  BY <3>1, <3>2, ReadFrame DEF Readers
  <2> QED  BY <2>1 DEF Readers
<1> QED  BY <1>1, <1>2, <1>3, <1>4, <1>5, <1>6, <1>7, <1>8, <1>9, <1>10
         DEF Next, RunHandler, Environment

\* A connected session in the table has exactly one read under way, unless its
\* removal is posted or a payload without a peer made it deaf.
THEOREM SessionsKeepReading == Spec => []ReaderAlive
<1>1. Readers => ReaderAlive
  BY DEF Readers, ReadInv, ReaderAlive, Connecting
<1> QED  BY <1>1, ForwardInvariant, ReadersInit, ReadersNext, PTL DEF Spec

-----------------------------------------------------------------------------
(* The key of the table: AdrTuple.                                         *)

\* A set of natural numbers that is not empty has a least one.
LEMMA LeastNatural ==
  ASSUME NEW T \in SUBSET Nat, T # {}
  PROVE  \E m \in T : \A n \in T : m <= n
<1>1. PICK m \in T : \A n \in T : ~(<<n, m>> \in OpToRel(<, Nat))
  BY WFMin, NatLessThanWellFounded
<1>2. \A n \in T : ~(n < m)
  BY <1>1 DEF OpToRel
<1> QED  BY <1>2

\* InsertAt: the elements before the place, the new one, the others one later.
LEMMA InsertAtFacts ==
  ASSUME NEW S, NEW q \in Seq(S), NEW i \in 1..(Len(q) + 1), NEW x \in S
  PROVE  /\ InsertAt(q, i, x) \in Seq(S)
         /\ Len(InsertAt(q, i, x)) = Len(q) + 1
         /\ \A j \in 1..(Len(q) + 1) : InsertAt(q, i, x)[j] =
              IF j < i THEN q[j] ELSE IF j = i THEN x ELSE q[j - 1]
<1> DEFINE a == SubSeq(q, 1, i - 1)
           b == SubSeq(q, i, Len(q))
<1>1. /\ a \in Seq(S) /\ Len(a) = i - 1
      /\ \A j \in 1..(i - 1) : a[j] = q[j]
  BY SubSeqProperties
<1>2. /\ b \in Seq(S) /\ Len(b) = Len(q) - i + 1
      /\ \A j \in 1..(Len(q) - i + 1) : b[j] = q[i + j - 1]
  BY SubSeqProperties
<1> DEFINE c == a \o <<x>>
<1>3. InsertAt(q, i, x) = c \o b
  BY DEF InsertAt
<1> HIDE DEF a, b
<1>4. /\ c \in Seq(S) /\ Len(c) = i
      /\ \A j \in 1..i : c[j] = IF j < i THEN q[j] ELSE x
  BY <1>1
<1> HIDE DEF c
<1>5. InsertAt(q, i, x) \in Seq(S) /\ Len(InsertAt(q, i, x)) = Len(q) + 1
  <2>1. c \o b \in Seq(S) /\ Len(c \o b) = Len(c) + Len(b)
    BY <1>2, <1>4, ConcatProperties
  <2>2. Len(c) + Len(b) = Len(q) + 1
    BY <1>2, <1>4
  <2> QED  BY <1>3, <2>1, <2>2
<1>6. ASSUME NEW j \in 1..(Len(q) + 1)
      PROVE  InsertAt(q, i, x)[j] =
               IF j < i THEN q[j] ELSE IF j = i THEN x ELSE q[j - 1]
  <2>1. CASE j <= i
    BY <1>2, <1>3, <1>4, <2>1
  <2>2. CASE j > i
    <3>1. (c \o b)[j] = b[j - i]
      BY <1>2, <1>4, <2>2, SMTT(30)
    <3>2. j - i \in 1..(Len(q) - i + 1) /\ i + (j - i) - 1 = j - 1
      BY <2>2
    <3> QED  BY <1>2, <1>3, <2>2, <3>1, <3>2
  <2> QED  BY <2>1, <2>2
<1> QED  BY <1>5, <1>6

\* RemoveAt: the elements behind the place move one earlier.
LEMMA RemoveAtFacts ==
  ASSUME NEW S, NEW q \in Seq(S), NEW i \in 1..Len(q)
  PROVE  /\ RemoveAt(q, i) \in Seq(S)
         /\ Len(RemoveAt(q, i)) = Len(q) - 1
         /\ \A j \in 1..(Len(q) - 1) : RemoveAt(q, i)[j] =
              IF j < i THEN q[j] ELSE q[j + 1]
<1> DEFINE a == SubSeq(q, 1, i - 1)
           b == SubSeq(q, i + 1, Len(q))
<1>1. /\ a \in Seq(S) /\ Len(a) = i - 1
      /\ \A j \in 1..(i - 1) : a[j] = q[j]
  BY SubSeqProperties
<1>2. /\ b \in Seq(S) /\ Len(b) = Len(q) - i
      /\ \A j \in 1..(Len(q) - i) : b[j] = q[i + j]
  BY SubSeqProperties
<1>3. RemoveAt(q, i) = a \o b
  BY DEF RemoveAt
<1> HIDE DEF a, b
<1>4. RemoveAt(q, i) \in Seq(S) /\ Len(RemoveAt(q, i)) = Len(q) - 1
  BY <1>1, <1>2, <1>3, SMTT(30)
<1>5. ASSUME NEW j \in 1..(Len(q) - 1)
      PROVE  RemoveAt(q, i)[j] = IF j < i THEN q[j] ELSE q[j + 1]
  <2>1. CASE j < i
    BY <1>1, <1>2, <1>3, <2>1
  <2>2. CASE j >= i
    <3>1. (a \o b)[j] = b[j - i + 1]
      BY <1>1, <1>2, <2>2, SMTT(30)
    <3>2. j - i + 1 \in 1..(Len(q) - i) /\ i + (j - i + 1) = j + 1
      BY <2>2
    <3> QED  BY <1>2, <1>3, <2>2, <3>1, <3>2, SMTT(30)
  <2> QED  BY <2>1, <2>2
<1> QED  BY <1>4, <1>5

-----------------------------------------------------------------------------
(* The order < of AdrTuple: strict, total, and == is what it leaves.       *)

\* The fields of a tuple, and that they make it.
LEMMA TupleFields ==
  ASSUME NEW a \in Tuple
  PROVE  /\ a.m_transport \in Int /\ a.m_adr \in Int /\ a.m_nPort \in Int
         /\ a = [m_transport |-> a.m_transport, m_adr |-> a.m_adr,
                 m_nPort |-> a.m_nPort]
<1>1. Transports \subseteq Int /\ Addresses \subseteq Int /\ Ports \subseteq Int
  BY TupleAssumption
<1>2. a.m_transport \in Transports /\ a.m_adr \in Addresses /\ a.m_nPort \in Ports
  BY DEF Tuple
<1> QED  BY <1>1, <1>2 DEF Tuple

\* operator< of AdrTuple holds of no tuple and itself.
LEMMA LessIrreflexive ==
  ASSUME NEW a \in Tuple  PROVE ~Less(a, a)
BY TupleFields DEF Less

\* operator< of AdrTuple is transitive although it compares three fields in turn.
LEMMA LessTransitive ==
  ASSUME NEW a \in Tuple, NEW b \in Tuple, NEW c \in Tuple, Less(a, b), Less(b, c)
  PROVE  Less(a, c)
BY TupleFields DEF Less

\* Of two tuples operator< orders one before the other, or they are equal.
LEMMA LessTotal ==
  ASSUME NEW a \in Tuple, NEW b \in Tuple
  PROVE  Less(a, b) \/ a = b \/ Less(b, a)
BY TupleFields DEF Less

\* operator== compares every field that tells tuples apart.
LEMMA EqualIsEquality ==
  ASSUME NEW a \in Tuple, NEW b \in Tuple
  PROVE  Equal(a, b) <=> a = b
BY DEF Tuple, Equal

-----------------------------------------------------------------------------
(* The inductive invariant: the keys are strictly sorted.                  *)

\* The descent of std::map always ends at some place.
LEMMA LowerBoundExists ==
  ASSUME TupleInv, NEW k \in Tuple
  PROVE  LowerBounds(k) # {}
<1> DEFINE T == {i \in 1..(Len(keys) + 1) : i <= Len(keys) => ~Less(keys[i], k)}
<1>1. Len(keys) \in Nat
  BY DEF TupleInv, Sorted
<1>2. T \in SUBSET Nat /\ Len(keys) + 1 \in T
  BY <1>1
<1>3. PICK m \in T : \A n \in T : m <= n
  BY <1>2, LeastNatural
<1>4. m > 1 => Less(keys[m - 1], k)
  BY <1>1, <1>3
<1> QED  BY <1>3, <1>4 DEF LowerBounds

\* The keys and their places.
LEMMA KeyPlaces ==
  ASSUME TupleInv
  PROVE  /\ Len(keys) \in Nat
         /\ DOMAIN keys = 1..Len(keys)
         /\ \A j \in 1..Len(keys) : keys[j] \in Tuple
BY DEF TupleInv

\* Every key before a lower bound is less, every key behind it is greater:
\* the descent is right although it compares few keys.
LEMMA LowerBoundSplits ==
  ASSUME TupleInv, NEW k \in Tuple, NEW i \in LowerBounds(k), NEW j \in 1..Len(keys)
  PROVE  /\ j < i => Less(keys[j], k)
         /\ j > i => Less(k, keys[j])
         /\ j = i => keys[j] = k \/ Less(k, keys[j])
<1>1. /\ i \in 1..(Len(keys) + 1)
      /\ i > 1 => Less(keys[i - 1], k)
      /\ i <= Len(keys) => ~Less(keys[i], k)
  BY DEF LowerBounds
<1>2. ASSUME j < i  PROVE Less(keys[j], k)
  <2>1. CASE j = i - 1
    BY <1>1, <1>2, <2>1, KeyPlaces
  <2>2. CASE j < i - 1
    <3>1. i - 1 \in 1..Len(keys)
      BY <1>1, <1>2, KeyPlaces
    <3>2. Less(keys[j], keys[i - 1])
      BY <2>2, <3>1, KeyPlaces DEF TupleInv, Sorted
    <3> QED  BY <1>1, <1>2, <3>1, <3>2, KeyPlaces, LessTransitive
  <2> QED  BY <1>1, <1>2, <2>1, <2>2, KeyPlaces
<1>3. ASSUME i <= Len(keys)
      PROVE  i \in 1..Len(keys) /\ (keys[i] = k \/ Less(k, keys[i]))
  BY <1>1, <1>3, KeyPlaces, LessTotal
<1>4. ASSUME i < j  PROVE Less(k, keys[j])
  <2>1. i \in 1..Len(keys) /\ (keys[i] = k \/ Less(k, keys[i]))
    BY <1>1, <1>3, <1>4, KeyPlaces
  <2>2. Less(keys[i], keys[j])
    BY <1>4, <2>1, KeyPlaces DEF TupleInv, Sorted
  <2> QED  BY <2>1, <2>2, KeyPlaces, LessTransitive
<1> QED  BY <1>1, <1>2, <1>3, <1>4, KeyPlaces

\* The comparison with every key finds the place of the descent or none.
LEMMA ScanFacts ==
  ASSUME TupleInv, NEW k \in Tuple, NEW i \in LowerBounds(k)
  PROVE  /\ i \in 1..(Len(keys) + 1)
         /\ Scan(k) = {j \in 1..Len(keys) : keys[j] = k}
         /\ \A j \in Scan(k) : j = i
         /\ FoundAt(i, k) <=> i \in Scan(k)
<1>1. i \in 1..(Len(keys) + 1)
  BY DEF LowerBounds
<1>2. Scan(k) = {j \in 1..Len(keys) : keys[j] = k}
  BY KeyPlaces, EqualIsEquality DEF Scan
<1>3. \A j \in Scan(k) : j = i
  BY <1>1, <1>2, KeyPlaces, LowerBoundSplits, LessIrreflexive
<1>4. FoundAt(i, k) <=> i \in Scan(k)
  <2>1. CASE i <= Len(keys)
    <3>1. i \in 1..Len(keys) /\ keys[i] \in Tuple
      BY <1>1, <2>1, KeyPlaces
    <3>2. keys[i] = k \/ Less(k, keys[i])
      BY <3>1, LowerBoundSplits
    <3> QED  BY <1>2, <2>1, <3>1, <3>2, LessIrreflexive DEF FoundAt
  <2>2. CASE i > Len(keys)
    BY <1>1, <1>2, <2>2, KeyPlaces DEF FoundAt
  <2> QED  BY <1>1, <2>1, <2>2, KeyPlaces
<1> QED  BY <1>1, <1>2, <1>3, <1>4

\* In sorted keys the two searches find the same place.
LEMMA SearchesAgreeHolds ==
  ASSUME TupleInv
  PROVE  SearchesAgree
<1> SUFFICES ASSUME NEW k \in Tuple, NEW i \in LowerBounds(k)
             PROVE  IF Scan(k) = {} THEN ~FoundAt(i, k)
                    ELSE FoundAt(i, k) /\ Scan(k) = {i}
  BY LowerBoundExists DEF SearchesAgree
<1> QED  BY ScanFacts

-----------------------------------------------------------------------------
(* The steps.                                                              *)

\* addRouterSession puts a key where the descent ends: the order stays strict.
LEMMA AddKeepsOrder ==
  ASSUME TupleInv, NEW k \in Tuple, AddSession(k)
  PROVE  TupleInv'
<1>1. PICK i \in LowerBounds(k) :
        keys' = IF FoundAt(i, k) THEN keys ELSE InsertAt(keys, i, k)
  BY DEF AddSession
<1>2. ~FoundAt(i, k)
  BY SearchesAgreeHolds DEF SearchesAgree, AddSession
<1>3. keys' = InsertAt(keys, i, k) /\ i \in 1..(Len(keys) + 1)
  BY <1>1, <1>2 DEF LowerBounds
<1>4. /\ keys' \in Seq(Tuple) /\ Len(keys') = Len(keys) + 1
      /\ \A j \in 1..(Len(keys) + 1) : keys'[j] =
           IF j < i THEN keys[j] ELSE IF j = i THEN k ELSE keys[j - 1]
  BY <1>3, InsertAtFacts, SMTT(30) DEF TupleInv
<1>5. ASSUME NEW j \in 1..Len(keys), j >= i
      PROVE  Less(k, keys[j])
  <2>1. j \in Int /\ i \in Int /\ Len(keys) \in Nat
    BY <1>3, KeyPlaces
  <2>2. CASE j = i
    BY <1>2, <2>1, <2>2 DEF FoundAt
  <2>3. CASE j > i
    BY <2>3, LowerBoundSplits
  <2> QED  BY <1>5, <2>1, <2>2, <2>3
<1>6. ASSUME NEW a \in 1..(Len(keys) + 1), NEW b \in 1..(Len(keys) + 1), a < b
      PROVE  Less(keys'[a], keys'[b])
  <2> DEFINE old(j) == IF j < i THEN j ELSE j - 1
  <2>1. CASE a # i /\ b # i
    <3>1. /\ old(a) \in 1..Len(keys) /\ old(b) \in 1..Len(keys)
          /\ old(a) < old(b)
      BY <1>3, <1>6, <2>1, KeyPlaces
    <3>2. keys'[a] = keys[old(a)] /\ keys'[b] = keys[old(b)]
      BY <1>3, <1>4, <1>6, <2>1
    <3> QED  BY <3>1, <3>2, KeyPlaces DEF TupleInv, Sorted
  <2>2. CASE b = i
    BY <1>1, <1>3, <1>4, <1>6, <2>2, KeyPlaces, LowerBoundSplits
  <2>3. CASE a = i
    BY <1>3, <1>4, <1>5, <1>6, <2>3, KeyPlaces, SMTT(30)
  <2> QED  BY <2>1, <2>2, <2>3
<1> QED  BY <1>4, <1>6 DEF TupleInv, Sorted

\* removeRouterSession takes a key out: the order stays strict.
LEMMA RemoveKeepsOrder ==
  ASSUME TupleInv, NEW k \in Tuple, RemoveSession(k)
  PROVE  TupleInv'
<1>1. PICK i \in LowerBounds(k) :
        keys' = IF FoundAt(i, k) THEN RemoveAt(keys, i) ELSE keys
  BY DEF RemoveSession
<1>2. CASE ~FoundAt(i, k)
  BY <1>1, <1>2 DEF TupleInv, Sorted
<1>3. CASE FoundAt(i, k)
  <2>1. i \in 1..Len(keys)
    BY <1>3, KeyPlaces DEF FoundAt, LowerBounds
  <2>2. /\ keys' \in Seq(Tuple) /\ Len(keys') = Len(keys) - 1
        /\ \A j \in 1..(Len(keys) - 1) : keys'[j] =
             IF j < i THEN keys[j] ELSE keys[j + 1]
    BY <1>1, <1>3, <2>1, RemoveAtFacts DEF TupleInv
  <2>3. ASSUME NEW a \in 1..(Len(keys) - 1), NEW b \in 1..(Len(keys) - 1), a < b
        PROVE  Less(keys'[a], keys'[b])
    <3> DEFINE old(j) == IF j < i THEN j ELSE j + 1
    <3>1. /\ old(a) \in 1..Len(keys) /\ old(b) \in 1..Len(keys)
          /\ old(a) < old(b)
      BY <2>1, <2>3, KeyPlaces
    <3>2. keys'[a] = keys[old(a)] /\ keys'[b] = keys[old(b)]
      BY <2>1, <2>2
    <3> QED  BY <3>1, <3>2, KeyPlaces DEF TupleInv, Sorted
  <2> QED  BY <2>2, <2>3 DEF TupleInv, Sorted
<1> QED  BY <1>2, <1>3

\* The keys stay in strict order, whatever sessions come and go.
THEOREM KeysStaySorted == TupleSpec => []TupleInv
<1>1. TupleInit => TupleInv
  BY DEF TupleInit, TupleInv, Sorted
<1>2. TupleInv /\ [TupleNext]_keys => TupleInv'
  <2> SUFFICES ASSUME TupleInv, [TupleNext]_keys  PROVE TupleInv'
    OBVIOUS
  <2>1. CASE UNCHANGED keys
    BY <2>1 DEF TupleInv, Sorted
  <2>2. CASE TupleNext
    BY <2>2, AddKeepsOrder, RemoveKeepsOrder DEF TupleNext
  <2> QED  BY <2>1, <2>2
<1> QED  BY <1>1, <1>2, PTL DEF TupleSpec

\* The comparison of every key and the descent of std::map find the same
\* session in every reachable table.
THEOREM SearchesAlwaysAgree == TupleSpec => []SearchesAgree
<1>1. TupleInv => SearchesAgree
  BY SearchesAgreeHolds
<1> QED  BY <1>1, KeysStaySorted, PTL

-----------------------------------------------------------------------------
(* The table is a dictionary.                                              *)

\* The comparison of every key finds what is a key.
LEMMA ScanIsSearch ==
  ASSUME TupleInv, NEW j \in Tuple
  PROVE  Scan(j) # {} <=> \E a \in 1..Len(keys) : keys[a] = j
BY KeyPlaces, EqualIsEquality DEF Scan

\* Entering peer k makes it found and changes nothing for the others.
LEMMA AddEnters ==
  ASSUME TupleInv, NEW k \in Tuple, AddSession(k), NEW j \in Tuple
  PROVE  (\E a \in 1..Len(keys') : keys'[a] = j)
           <=> j = k \/ \E a \in 1..Len(keys) : keys[a] = j
<1>1. PICK i \in LowerBounds(k) :
        keys' = IF FoundAt(i, k) THEN keys ELSE InsertAt(keys, i, k)
  BY DEF AddSession
<1>2. i \in 1..(Len(keys) + 1) /\ ~FoundAt(i, k)
  BY ScanFacts DEF AddSession
<1>3. /\ Len(keys') = Len(keys) + 1
      /\ \A a \in 1..(Len(keys) + 1) : keys'[a] =
           IF a < i THEN keys[a] ELSE IF a = i THEN k ELSE keys[a - 1]
  BY <1>1, <1>2, InsertAtFacts, SMTT(30) DEF TupleInv
<1>4. ASSUME NEW a \in 1..Len(keys')
      PROVE  keys'[a] = k \/ \E b \in 1..Len(keys) : keys'[a] = keys[b]
  BY <1>2, <1>3, KeyPlaces
<1>5. ASSUME NEW b \in 1..Len(keys)
      PROVE  \E a \in 1..Len(keys') : keys'[a] = keys[b]
  <2>1. CASE b < i
    BY <1>2, <1>3, <2>1, KeyPlaces
  <2>2. CASE b >= i
    <3>1. b + 1 \in 1..(Len(keys) + 1) /\ b + 1 > i /\ (b + 1) - 1 = b
      BY <1>2, <2>2, KeyPlaces
    <3>2. keys'[b + 1] = keys[b]
      BY <1>2, <1>3, <3>1, KeyPlaces
    <3> QED  BY <1>3, <3>1, <3>2
  <2> QED  BY <1>2, <2>1, <2>2, KeyPlaces
<1>6. i \in 1..Len(keys') /\ keys'[i] = k
  BY <1>2, <1>3
<1> QED  BY <1>4, <1>5, <1>6, SMTT(30)

\* Removing peer k takes it out and changes nothing for the others.
LEMMA RemoveTakesOut ==
  ASSUME TupleInv, NEW k \in Tuple, RemoveSession(k), NEW j \in Tuple
  PROVE  (\E a \in 1..Len(keys') : keys'[a] = j)
           <=> j # k /\ \E a \in 1..Len(keys) : keys[a] = j
<1>1. PICK i \in LowerBounds(k) :
        keys' = IF FoundAt(i, k) THEN RemoveAt(keys, i) ELSE keys
  BY DEF RemoveSession
<1>2. /\ i \in 1..(Len(keys) + 1)
      /\ \A a \in 1..Len(keys) : keys[a] = k => a = i
      /\ FoundAt(i, k) <=> i \in 1..Len(keys) /\ keys[i] = k
  BY ScanFacts
<1>3. CASE ~FoundAt(i, k)
  BY <1>1, <1>2, <1>3
<1>4. CASE FoundAt(i, k)
  <2>1. i \in 1..Len(keys) /\ keys[i] = k
    BY <1>2, <1>4
  <2>2. /\ Len(keys') = Len(keys) - 1
        /\ \A a \in 1..(Len(keys) - 1) : keys'[a] =
             IF a < i THEN keys[a] ELSE keys[a + 1]
    BY <1>1, <1>4, <2>1, RemoveAtFacts DEF TupleInv
  <2>3. ASSUME NEW a \in 1..Len(keys')
        PROVE  \E b \in 1..Len(keys) : b # i /\ keys'[a] = keys[b]
    <3>1. CASE a < i
      BY <2>1, <2>2, <3>1, KeyPlaces
    <3>2. CASE a >= i
      <4>1. a + 1 \in 1..Len(keys) /\ a + 1 # i
        BY <2>1, <2>2, <3>2, KeyPlaces
      <4> QED  BY <2>1, <2>2, <3>2, <4>1, KeyPlaces
    <3> QED  BY <2>1, <2>2, <3>1, <3>2, KeyPlaces
  <2>4. ASSUME NEW b \in 1..Len(keys), b # i
        PROVE  \E a \in 1..Len(keys') : keys'[a] = keys[b]
    <3>1. CASE b < i
      BY <2>1, <2>2, <3>1, KeyPlaces
    <3>2. CASE b > i
      <4>1. b - 1 \in 1..(Len(keys) - 1) /\ ~(b - 1 < i) /\ (b - 1) + 1 = b
        BY <2>1, <3>2, KeyPlaces
      <4> QED  BY <2>2, <4>1
    <3> QED  BY <2>1, <2>4, <3>1, <3>2, KeyPlaces
  <2> QED  BY <1>2, <2>1, <2>3, <2>4, ZenonT(60)
<1> QED  BY <1>3, <1>4

\* The table of sessions implements the dictionary of peers: a step of the
\* map is a put, a removal or nothing in terms of what == finds.
THEOREM TableIsDictionary == TupleSpec => ImplementsTable
<1> DEFINE found == [k \in Tuple |-> Scan(k) # {}]
<1>1. TupleInit => SessionTable!DictInit
  <2>1. TupleInit => \A k \in Tuple : Scan(k) = {}
    BY DEF TupleInit, Scan
  <2> QED  BY <2>1 DEF SessionTable!DictInit
<1>2. TupleInv /\ TupleInv' /\ [TupleNext]_keys => [SessionTable!DictNext]_found
  <2> SUFFICES ASSUME TupleInv, TupleInv', [TupleNext]_keys
               PROVE  [SessionTable!DictNext]_found
    OBVIOUS
  <2>1. \A j \in Tuple : Scan(j) # {} <=> \E a \in 1..Len(keys) : keys[a] = j
    BY ScanIsSearch
  <2>2. \A j \in Tuple : Scan(j)' # {} <=> \E a \in 1..Len(keys') : keys'[a] = j
    <3>1. /\ DOMAIN keys' = 1..Len(keys')
          /\ \A a \in DOMAIN keys' : keys'[a] \in Tuple
      BY DEF TupleInv
    <3> QED  BY <3>1, EqualIsEquality DEF Scan
  <2>3. CASE UNCHANGED keys
    BY <2>3 DEF Scan
  <2>4. ASSUME NEW k \in Tuple, AddSession(k)
        PROVE  SessionTable!DictPut(k, TRUE)
    <3>1. \A j \in Tuple : Scan(j)' # {} <=> IF j = k THEN TRUE ELSE Scan(j) # {}
      BY <2>1, <2>2, <2>4, AddEnters
    <3>2. found' = [found EXCEPT ![k] = TRUE]
      BY <3>1, Zenon
    <3> QED  BY <3>2 DEF SessionTable!DictPut
  <2>5. ASSUME NEW k \in Tuple, RemoveSession(k)
        PROVE  SessionTable!DictRemove(k)
    <3>1. \A j \in Tuple : Scan(j)' # {} <=> IF j = k THEN FALSE ELSE Scan(j) # {}
      BY <2>1, <2>2, <2>5, RemoveTakesOut
    <3>2. found' = [found EXCEPT ![k] = FALSE]
      BY <3>1, Zenon
    <3> QED  BY <3>2 DEF SessionTable!DictRemove
  <2> QED  BY <2>3, <2>4, <2>5 DEF TupleNext, SessionTable!DictNext
<1> QED  BY <1>1, <1>2, KeysStaySorted, PTL DEF TupleSpec, ImplementsTable, SessionTable!DictSpec
=============================================================================
