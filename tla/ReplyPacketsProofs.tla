------------------------- MODULE ReplyPacketsProofs -------------------------
(***************************************************************************)
(* Proofs about UdpReply, for any number of replies of any kinds, with and *)
(* without failing sends.  A handler works on a record of the variables    *)
(* (Current, Becomes); the invariant is stated on such records, and what   *)
(* add_tcp_packet, pop_tcp_packet and deliver_to_udp_peer do to it is      *)
(* proved once for each of them.                                           *)
(*                                                                         *)
(* Proofs about RouterPacket, for every size of the payload and of the     *)
(* lengths.  The invariant says byte by byte what each of the three        *)
(* packets holds, who wrote it included; the properties are then about     *)
(* lengths only, where the one difficulty is that they wrap around.        *)
(***************************************************************************)
EXTENDS UdpReply, RouterPacket, SequenceTheorems, TLAPS

-----------------------------------------------------------------------------
(* The inductive invariant, on a record st and the datagrams w sent.       *)

\* Types; the replies in the queue have been decoded.
WellTyped(st, w) ==
  /\ st \in [queue : Seq(ReplyId), sends : Seq(Send), crashed : BOOLEAN,
             handed : SUBSET ReplyId, skipped : BOOLEAN, rep : Seq(Kinds)]
  /\ Len(st.rep) <= MaxReplies
  /\ \A i \in DOMAIN st.queue : st.queue[i] <= Len(st.rep)
  /\ w \in Seq(ReplyId \union {Stale})

\* Replies leave in the order of their numbers: the sends under way are not
\* behind the queue, what was sent is not behind a send that waits.
Ordered(st, w) ==
  /\ \A i, j \in DOMAIN st.queue : i < j => st.queue[i] < st.queue[j]
  /\ \A i, j \in DOMAIN st.sends : i < j => st.sends[i].id <= st.sends[j].id
  /\ \A i \in DOMAIN st.sends : st.sends[i].id <= Len(st.rep)
  /\ \A i \in DOMAIN st.sends, j \in DOMAIN st.queue :
       st.sends[i].id <= st.queue[j]
  /\ \A n \in DOMAIN w : w[n] # Stale =>
       /\ w[n] <= Len(st.rep)
       /\ \A j \in DOMAIN st.queue : w[n] <= st.queue[j]
       /\ \A j \in DOMAIN st.sends :
            st.sends[j].state = "queued" => w[n] <= st.sends[j].id

\* A reply with a peer that is not in the queue was handed to async_send_to.
Accounted(st) ==
  ~st.skipped => \A id \in DOMAIN st.rep :
    /\ st.rep[id] = "peer"
    /\ \A j \in DOMAIN st.queue : st.queue[j] # id
    => id \in st.handed

\* So was the reply at the front, and a send is under way while one waits:
\* this holds whenever deliver_to_udp_peer has returned.
Started(st) ==
  st.queue # << >> /\ ~st.skipped /\ ~st.crashed =>
    Head(st.queue) \in st.handed /\ st.sends # << >>

-----------------------------------------------------------------------------
(* Sequences.                                                              *)

\* The queue without its front.
LEMMA TailFacts ==
  ASSUME NEW S, NEW q \in Seq(S), q # << >>
  PROVE  /\ Tail(q) \in Seq(S) /\ Head(q) \in S /\ Head(q) = q[1]
         /\ Len(q) \in Nat /\ Len(q) > 0 /\ Len(Tail(q)) = Len(q) - 1
         /\ DOMAIN q = 1..Len(q) /\ DOMAIN Tail(q) = 1..(Len(q) - 1)
         /\ \A i \in 1..(Len(q) - 1) : Tail(q)[i] = q[i + 1]
OBVIOUS

\* The queue with one more at its end.
LEMMA AppendFacts ==
  ASSUME NEW S, NEW q \in Seq(S), NEW x \in S
  PROVE  /\ Append(q, x) \in Seq(S) /\ Append(q, x) # << >>
         /\ Len(q) \in Nat /\ Len(Append(q, x)) = Len(q) + 1
         /\ DOMAIN q = 1..Len(q) /\ DOMAIN Append(q, x) = 1..(Len(q) + 1)
         /\ \A i \in 1..Len(q) : Append(q, x)[i] = q[i]
         /\ Append(q, x)[Len(q) + 1] = x
         /\ Head(Append(q, x)) = IF q = << >> THEN x ELSE Head(q)
OBVIOUS

-----------------------------------------------------------------------------
(* The functions.                                                          *)

\* What deliver_to_udp_peer does: nothing, or it sends the front, drops it,
\* or throws, by the kind of the reply.
LEMMA DeliverCases ==
  ASSUME NEW st, NEW w, WellTyped(st, w), NEW d, d = deliver_to_udp_peer(st)
  PROVE  \/ (st.queue = << >> \/ st.crashed) /\ d = st
         \/ /\ st.queue # << >> /\ ~st.crashed
            /\ st.rep[Head(st.queue)] = "peer"
            /\ d = [st EXCEPT !.sends = Append(st.sends, [id |-> Head(st.queue), state |-> "queued"]),
                              !.handed = st.handed \union {Head(st.queue)}]
         \/ /\ st.queue # << >> /\ ~st.crashed
            /\ st.rep[Head(st.queue)] = "none"
            /\ d = [st EXCEPT !.queue = Tail(st.queue), !.skipped = TRUE]
         \/ /\ st.queue # << >> /\ ~st.crashed
            /\ st.rep[Head(st.queue)] = "bad"
            /\ d = [st EXCEPT !.crashed = TRUE]
<1>1. CASE st.queue = << >> \/ st.crashed
  BY <1>1 DEF deliver_to_udp_peer
<1>2. CASE st.queue # << >> /\ ~st.crashed
  <2>1. st.queue \in Seq(ReplyId) /\ st.rep \in Seq(Kinds)
    BY DEF WellTyped
  <2>2. Head(st.queue) \in 1..Len(st.rep)
    <3>1. /\ 1 \in DOMAIN st.queue /\ Head(st.queue) = st.queue[1]
          /\ Head(st.queue) \in ReplyId
      BY <1>2, <2>1, TailFacts
    <3>2. Len(st.rep) \in Nat
      BY <2>1
    <3> QED  BY <3>1, <3>2 DEF WellTyped, ReplyId
  <2>3. st.rep[Head(st.queue)] \in {"peer", "none", "bad"}
    <3>1. st.rep[Head(st.queue)] \in Kinds
      BY <2>1, <2>2
    <3> QED  BY <3>1, ReplyAssumption DEF Kind
  <2>4. CASE st.rep[Head(st.queue)] = "peer"
    BY <1>2, <2>4 DEF deliver_to_udp_peer, async_send_to
  <2>5. CASE st.rep[Head(st.queue)] = "none"
    BY <1>2, <2>5 DEF deliver_to_udp_peer, pop_tcp_packet, WellTyped
  <2>6. CASE st.rep[Head(st.queue)] = "bad"
    BY <1>2, <2>6 DEF deliver_to_udp_peer
  <2> QED  BY <2>3, <2>4, <2>5, <2>6
<1> QED  BY <1>1, <1>2 DEF WellTyped

\* The fields of a record, and of one that differs in some of them.
LEMMA Fields ==
  ASSUME NEW st, NEW w, WellTyped(st, w)
  PROVE  /\ st.queue \in Seq(ReplyId) /\ st.sends \in Seq(Send)
         /\ st.crashed \in BOOLEAN /\ st.skipped \in BOOLEAN
         /\ st.handed \in SUBSET ReplyId /\ st.rep \in Seq(Kinds)
         /\ Len(st.rep) \in Nat /\ Len(st.queue) \in Nat /\ Len(st.sends) \in Nat
         /\ DOMAIN st.queue = 1..Len(st.queue)
         /\ DOMAIN st.sends = 1..Len(st.sends)
         /\ DOMAIN st.rep = 1..Len(st.rep)
         /\ \A i \in DOMAIN st.queue : st.queue[i] \in Int
         /\ \A i \in DOMAIN st.sends : st.sends[i] \in Send /\ st.sends[i].id \in Int
         /\ \A i \in DOMAIN w : w[i] \in Int
<1>1. /\ st.queue \in Seq(ReplyId) /\ st.sends \in Seq(Send)
      /\ st.crashed \in BOOLEAN /\ st.skipped \in BOOLEAN
      /\ st.handed \in SUBSET ReplyId /\ st.rep \in Seq(Kinds)
      /\ w \in Seq(ReplyId \union {Stale})
  BY DEF WellTyped
<1>2. ReplyId \subseteq Int /\ Stale \in Int
  BY DEF ReplyId, Stale
<1>3. \A i \in DOMAIN st.sends : st.sends[i] \in Send /\ st.sends[i].id \in ReplyId
  <2>1. \A i \in DOMAIN st.sends : st.sends[i] \in Send
    BY <1>1
  <2> QED  BY <2>1 DEF Send
<1>4. \A i \in DOMAIN w : w[i] \in ReplyId \union {Stale}
  BY <1>1
<1>5. \A i \in DOMAIN st.queue : st.queue[i] \in ReplyId
  BY <1>1
<1>6. /\ Len(st.rep) \in Nat /\ Len(st.queue) \in Nat /\ Len(st.sends) \in Nat
      /\ DOMAIN st.queue = 1..Len(st.queue)
      /\ DOMAIN st.sends = 1..Len(st.sends)
      /\ DOMAIN st.rep = 1..Len(st.rep)
  BY <1>1
<1> QED  BY <1>1, <1>2, <1>3, <1>4, <1>5, <1>6

\* A reply leaves the front of the queue.
LEMMA PopKeeps ==
  ASSUME NEW st, NEW w, NEW d, WellTyped(st, w), Ordered(st, w), st.queue # << >>,
         d = [st EXCEPT !.queue = Tail(st.queue)]
  PROVE  WellTyped(d, w) /\ Ordered(d, w)
<1>1. /\ d.queue = Tail(st.queue) /\ d.sends = st.sends /\ d.crashed = st.crashed
      /\ d.handed = st.handed /\ d.skipped = st.skipped /\ d.rep = st.rep
  BY DEF WellTyped
<1>2. /\ Tail(st.queue) \in Seq(ReplyId)
      /\ DOMAIN d.queue = 1..(Len(st.queue) - 1)
      /\ \A i \in DOMAIN d.queue : i + 1 \in DOMAIN st.queue /\ d.queue[i] = st.queue[i + 1]
  BY <1>1, Fields, TailFacts
<1>3. WellTyped(d, w)
  BY <1>1, <1>2 DEF WellTyped
<1>4. ASSUME NEW i \in DOMAIN d.queue, NEW j \in DOMAIN d.queue, i < j
      PROVE  d.queue[i] < d.queue[j]
  <2>1. i \in Int /\ j \in Int /\ i + 1 < j + 1
    BY <1>2, <1>4, Fields
  <2> QED  BY <1>2, <2>1 DEF Ordered
<1>5. Ordered(d, w)
  BY <1>1, <1>2, <1>4 DEF Ordered
<1> QED  BY <1>3, <1>5

\* The front of the queue is handed to async_send_to.
LEMMA SendKeeps ==
  ASSUME NEW st, NEW w, NEW d, WellTyped(st, w), Ordered(st, w), st.queue # << >>,
         d = [st EXCEPT !.sends = Append(st.sends, [id |-> Head(st.queue), state |-> "queued"]),
                        !.handed = st.handed \union {Head(st.queue)}]
  PROVE  WellTyped(d, w) /\ Ordered(d, w)
<1> DEFINE x == [id |-> Head(st.queue), state |-> "queued"]
<1>1. /\ d.queue = st.queue /\ d.sends = Append(st.sends, x) /\ d.crashed = st.crashed
      /\ d.handed = st.handed \union {Head(st.queue)}
      /\ d.skipped = st.skipped /\ d.rep = st.rep
  BY DEF WellTyped
<1>2. /\ Head(st.queue) = st.queue[1] /\ Head(st.queue) \in ReplyId
      /\ 1 \in DOMAIN st.queue
      /\ \A i \in DOMAIN st.queue : Head(st.queue) <= st.queue[i]
  <2>1. /\ Head(st.queue) = st.queue[1] /\ Head(st.queue) \in ReplyId
        /\ 1 \in DOMAIN st.queue
    BY Fields, TailFacts
  <2>2. ASSUME NEW i \in DOMAIN st.queue  PROVE st.queue[1] <= st.queue[i]
    <3>1. CASE i = 1
      BY <2>1, <3>1, Fields
    <3>2. CASE i > 1
      BY <2>1, <3>2, Fields DEF Ordered
    <3> QED  BY <3>1, <3>2, Fields
  <2> QED  BY <2>1, <2>2
<1>3. x \in Send /\ x.id = Head(st.queue) /\ x.state = "queued"
  BY <1>2 DEF Send
<1> HIDE DEF x
<1>4. /\ d.sends \in Seq(Send) /\ DOMAIN d.sends = 1..(Len(st.sends) + 1)
      /\ \A i \in 1..Len(st.sends) : d.sends[i] = st.sends[i]
      /\ d.sends[Len(st.sends) + 1] = x
  BY <1>1, <1>3, Fields, AppendFacts
<1>5. WellTyped(d, w)
  BY <1>1, <1>2, <1>4 DEF WellTyped
<1>6. \A i \in DOMAIN d.sends : i \in DOMAIN st.sends \/ i = Len(st.sends) + 1
  BY <1>4, Fields
<1>7. \A i, j \in DOMAIN d.sends : i < j => d.sends[i].id <= d.sends[j].id
  <2> SUFFICES ASSUME NEW i \in DOMAIN d.sends, NEW j \in DOMAIN d.sends, i < j
               PROVE  d.sends[i].id <= d.sends[j].id
    OBVIOUS
  <2>1. i \in DOMAIN st.sends /\ d.sends[i] = st.sends[i]
    BY <1>4, Fields
  <2>2. CASE j \in DOMAIN st.sends
    BY <1>4, <2>1, <2>2, Fields DEF Ordered
  <2>3. CASE j = Len(st.sends) + 1
    BY <1>2, <1>3, <1>4, <2>1, <2>3 DEF Ordered
  <2> QED  BY <1>6, <2>2, <2>3
<1>8. /\ \A i \in DOMAIN d.sends : d.sends[i].id <= Len(d.rep)
      /\ \A i \in DOMAIN d.sends, j \in DOMAIN d.queue : d.sends[i].id <= d.queue[j]
  BY <1>1, <1>2, <1>3, <1>4, <1>6, Fields DEF Ordered, WellTyped
<1>9. \A n \in DOMAIN w : w[n] # Stale => \A j \in DOMAIN d.sends :
        d.sends[j].state = "queued" => w[n] <= d.sends[j].id
  BY <1>1, <1>2, <1>3, <1>4, <1>6, Fields, SMTT(30) DEF Ordered
<1>10. Ordered(d, w)
  BY <1>1, <1>7, <1>8, <1>9 DEF Ordered
<1> QED  BY <1>5, <1>10

\* Whether a reply was dropped or the process is gone orders nothing.
LEMMA FlagsKeep ==
  ASSUME NEW st, NEW w, NEW d, WellTyped(st, w), Ordered(st, w),
         d = [st EXCEPT !.skipped = TRUE] \/ d = [st EXCEPT !.crashed = TRUE]
  PROVE  WellTyped(d, w) /\ Ordered(d, w)
<1>1. d.queue = st.queue /\ d.sends = st.sends /\ d.rep = st.rep
  BY DEF WellTyped
<1>2. WellTyped(d, w)
  BY <1>1 DEF WellTyped
<1> QED  BY <1>1, <1>2 DEF Ordered

\* After deliver_to_udp_peer the front of the queue is on its way, whatever
\* the queue held.
LEMMA DeliverKeeps ==
  ASSUME NEW st, NEW w, NEW d, WellTyped(st, w), Ordered(st, w),
         d = deliver_to_udp_peer(st)
  PROVE  /\ WellTyped(d, w) /\ Ordered(d, w) /\ Started(d)
         /\ Accounted(st) => Accounted(d)
         /\ st.skipped => d.skipped
         /\ d.rep = st.rep
<1>1. CASE (st.queue = << >> \/ st.crashed) /\ d = st
  BY <1>1 DEF Started
<1>2. CASE /\ st.queue # << >> /\ ~st.crashed
           /\ d = [st EXCEPT !.sends = Append(st.sends, [id |-> Head(st.queue), state |-> "queued"]),
                             !.handed = st.handed \union {Head(st.queue)}]
  <2>1. WellTyped(d, w) /\ Ordered(d, w)
    BY <1>2, SendKeeps
  <2>2. /\ d.queue = st.queue /\ d.handed = st.handed \union {Head(st.queue)}
        /\ d.sends = Append(st.sends, [id |-> Head(st.queue), state |-> "queued"])
        /\ d.skipped = st.skipped /\ d.rep = st.rep
    BY <1>2 DEF WellTyped
  <2>3. d.sends # << >>
    BY <2>2, Fields, SMTT(30)
  <2>4. Started(d)
    BY <2>2, <2>3 DEF Started
  <2>5. Accounted(st) => Accounted(d)
    BY <2>2 DEF Accounted
  <2> QED  BY <2>1, <2>2, <2>4, <2>5
<1>3. CASE /\ st.queue # << >> /\ ~st.crashed
           /\ d = [st EXCEPT !.queue = Tail(st.queue), !.skipped = TRUE]
  <2> DEFINE e == [st EXCEPT !.queue = Tail(st.queue)]
  <2>1. WellTyped(e, w) /\ Ordered(e, w)
    BY <1>3, PopKeeps
  <2>2. d = [e EXCEPT !.skipped = TRUE] /\ d.skipped /\ d.rep = st.rep
    BY <1>3 DEF WellTyped
  <2>3. WellTyped(d, w) /\ Ordered(d, w)
    BY <2>1, <2>2, FlagsKeep
  <2> QED  BY <2>2, <2>3 DEF Started, Accounted
<1>4. CASE /\ st.queue # << >> /\ ~st.crashed
           /\ d = [st EXCEPT !.crashed = TRUE]
  <2>1. /\ d.crashed /\ d.skipped = st.skipped /\ d.queue = st.queue
        /\ d.handed = st.handed /\ d.rep = st.rep
    BY <1>4 DEF WellTyped
  <2>2. WellTyped(d, w) /\ Ordered(d, w)
    BY <1>4, FlagsKeep
  <2> QED  BY <2>1, <2>2 DEF Started, Accounted
<1> QED  BY <1>1, <1>2, <1>3, <1>4, DeliverCases

\* The next reply, of kind k, is decoded and put at the end of the queue.
LEMMA PushKeeps ==
  ASSUME NEW st, NEW w, NEW d, NEW k \in Kinds, WellTyped(st, w), Ordered(st, w),
         Len(st.rep) < MaxReplies,
         d = [st EXCEPT !.rep = Append(st.rep, k),
                        !.queue = Append(st.queue, Len(st.rep) + 1)]
  PROVE  /\ WellTyped(d, w) /\ Ordered(d, w)
         /\ Accounted(st) => Accounted(d)
<1> DEFINE n == Len(st.rep) + 1
<1>1. /\ d.queue = Append(st.queue, n) /\ d.rep = Append(st.rep, k)
      /\ d.sends = st.sends /\ d.crashed = st.crashed /\ d.handed = st.handed
      /\ d.skipped = st.skipped
  BY DEF WellTyped
<1>2. n \in ReplyId /\ n \in Int /\ n = Len(st.rep) + 1
  BY Fields, ReplyAssumption DEF ReplyId
<1> HIDE DEF n
<1>3. /\ d.queue \in Seq(ReplyId) /\ DOMAIN d.queue = 1..(Len(st.queue) + 1)
      /\ \A i \in 1..Len(st.queue) : d.queue[i] = st.queue[i]
      /\ d.queue[Len(st.queue) + 1] = n
  BY <1>1, <1>2, Fields, AppendFacts
<1>4. /\ d.rep \in Seq(Kinds) /\ Len(d.rep) = n /\ DOMAIN d.rep = 1..n
      /\ \A i \in 1..Len(st.rep) : d.rep[i] = st.rep[i]
  BY <1>1, <1>2, Fields, AppendFacts
<1>5. \A i \in DOMAIN d.queue : i \in DOMAIN st.queue \/ i = Len(st.queue) + 1
  BY <1>3, Fields
<1>6. /\ \A i \in DOMAIN st.queue : st.queue[i] < n
      /\ \A i \in DOMAIN d.queue : d.queue[i] <= n
  <2>1. \A i \in DOMAIN st.queue : st.queue[i] <= Len(st.rep)
    BY DEF WellTyped
  <2>2. \A i \in DOMAIN st.queue : st.queue[i] < n
    BY <1>2, <2>1, Fields
  <2> QED  BY <1>2, <1>3, <1>5, <2>2, Fields
<1>7. WellTyped(d, w)
  <2>1. n <= MaxReplies
    BY <1>2, ReplyAssumption DEF ReplyId
  <2> QED  BY <1>1, <1>3, <1>4, <1>6, <2>1 DEF WellTyped
<1>8. ASSUME NEW i \in DOMAIN d.queue, NEW j \in DOMAIN d.queue, i < j
      PROVE  d.queue[i] < d.queue[j]
  <2>1. i \in DOMAIN st.queue /\ d.queue[i] = st.queue[i] /\ st.queue[i] < n
    BY <1>3, <1>6, <1>8, Fields
  <2>2. CASE j \in DOMAIN st.queue
    BY <1>3, <1>8, <2>1, <2>2, Fields DEF Ordered
  <2>3. CASE j = Len(st.queue) + 1
    BY <1>3, <2>1, <2>3
  <2> QED  BY <1>5, <2>2, <2>3
<1>9. \A i \in DOMAIN d.sends : d.sends[i].id <= n
  BY <1>1, <1>2, Fields DEF Ordered
<1>10. \A i \in DOMAIN d.sends, j \in DOMAIN d.queue : d.sends[i].id <= d.queue[j]
  BY <1>1, <1>3, <1>5, <1>9, Fields, SMTT(30) DEF Ordered
<1>11. \A i \in DOMAIN w : w[i] # Stale => w[i] <= n
  BY <1>2, Fields DEF Ordered
<1>12. \A i \in DOMAIN w : w[i] # Stale => \A j \in DOMAIN d.queue : w[i] <= d.queue[j]
  BY <1>3, <1>5, <1>11, Fields DEF Ordered
<1>13. Ordered(d, w)
  BY <1>1, <1>4, <1>8, <1>9, <1>10, <1>11, <1>12, SMTT(30) DEF Ordered
<1>14. Accounted(st) => Accounted(d)
  <2> SUFFICES ASSUME Accounted(st), ~st.skipped, NEW id \in DOMAIN d.rep,
                      d.rep[id] = "peer", \A j \in DOMAIN d.queue : d.queue[j] # id
               PROVE  id \in d.handed
    BY <1>1 DEF Accounted
  <2>1. id # n
    BY <1>3, Fields, SMTT(30)
  <2>2. id \in DOMAIN st.rep /\ d.rep[id] = st.rep[id]
    BY <1>2, <1>4, <2>1, Fields
  <2>3. \A j \in DOMAIN st.queue : j \in DOMAIN d.queue /\ st.queue[j] = d.queue[j]
    BY <1>3, Fields, SMTT(30)
  <2> QED  BY <1>1, <2>2, <2>3 DEF Accounted
<1> QED  BY <1>7, <1>13, <1>14

-----------------------------------------------------------------------------
(* The handlers.                                                           *)

\* While a reply waits, the one at the front was handed to async_send_to.
FrontHanded ==
  m_tcpPacketQueue # << >> /\ ~skipped /\ ~crashed =>
    Head(m_tcpPacketQueue) \in handed

ReplyInv ==
  /\ WellTyped(Current(replies), wire)
  /\ Ordered(Current(replies), wire)
  /\ Accounted(Current(replies))
  /\ overlap \in BOOLEAN /\ failed \in BOOLEAN
  /\ FrontHanded
  /\ StallHasCause
  /\ RepliesInOrder

\* A handler that ends with deliver_to_udp_peer keeps the invariant.
LEMMA BecomesDelivered ==
  ASSUME NEW st, WellTyped(st, wire), Ordered(st, wire), Accounted(st),
         Becomes(deliver_to_udp_peer(st)), UNCHANGED <<wire, failed>>,
         overlap' \in BOOLEAN, ReplyInv
  PROVE  ReplyInv'
<1> DEFINE d == deliver_to_udp_peer(st)
<1>1. /\ WellTyped(d, wire) /\ Ordered(d, wire) /\ Started(d) /\ Accounted(d)
      /\ d.rep = st.rep
  BY DeliverKeeps
<1> HIDE DEF d
<1>2. /\ m_tcpPacketQueue' = d.queue /\ sends' = d.sends /\ crashed' = d.crashed
      /\ handed' = d.handed /\ skipped' = d.skipped /\ replies' = d.rep
  BY DEF Becomes, d
<1>3. Current(replies)' = d
  BY <1>1, <1>2 DEF Current, WellTyped
<1>4. FrontHanded' /\ StallHasCause'
  BY <1>1, <1>2 DEF Started, FrontHanded, StallHasCause
<1>5. RepliesInOrder'
  BY DEF ReplyInv, RepliesInOrder
<1> QED  BY <1>1, <1>3, <1>4, <1>5 DEF ReplyInv

\* The record that handle_read_payload starts with, after the push.
LEMMA RecordUpdate ==
  ASSUME NEW rp, NEW q
  PROVE  [Current(replies) EXCEPT !.rep = rp, !.queue = q]
           = [Current(rp) EXCEPT !.queue = q]
<1>1. [Current(replies) EXCEPT !.rep = rp] = Current(rp)
  BY DEF Current
<1>2. [Current(replies) EXCEPT !.rep = rp, !.queue = q]
        = [[Current(replies) EXCEPT !.rep = rp] EXCEPT !.queue = q]
  BY DEF Current
<1> QED  BY <1>1, <1>2

\* handle_read_payload: a reply was read, pushed and maybe sent.
LEMMA StepRead ==
  ASSUME ReplyInv, NEW k \in Kinds, handle_read_payload(k)
  PROVE  ReplyInv'
<1> DEFINE st == Current(replies)
           n == Len(replies) + 1
           pushed == [st EXCEPT !.rep = Append(replies, k),
                                !.queue = Append(m_tcpPacketQueue, n)]
           added == add_tcp_packet(Current(Append(replies, k)), n)
<1>1. st.rep = replies /\ st.queue = m_tcpPacketQueue
  BY DEF Current
<1>2. WellTyped(pushed, wire) /\ Ordered(pushed, wire) /\ Accounted(pushed)
  BY <1>1, PushKeeps DEF ReplyInv, handle_read_payload
<1>3. pushed = [Current(Append(replies, k)) EXCEPT !.queue = Append(m_tcpPacketQueue, n)]
  BY RecordUpdate
<1>4. added = pushed \/ added = deliver_to_udp_peer(pushed)
  BY <1>3 DEF add_tcp_packet, Current
<1>5. WellTyped(added, wire) /\ Ordered(added, wire) /\ Accounted(added)
  BY <1>2, <1>4, DeliverKeeps
<1>6. /\ Becomes(deliver_to_udp_peer(added)) /\ UNCHANGED <<wire, failed>>
      /\ overlap' \in BOOLEAN
  BY DEF handle_read_payload
<1> QED  BY <1>5, <1>6, BecomesDelivered

\* The first send is taken off the list.
LEMMA SendDone ==
  ASSUME NEW st, NEW w, NEW d, WellTyped(st, w), Ordered(st, w), st.sends # << >>,
         d = [st EXCEPT !.sends = Tail(@)]
  PROVE  WellTyped(d, w) /\ Ordered(d, w)
<1>1. /\ d.sends = Tail(st.sends) /\ d.queue = st.queue /\ d.crashed = st.crashed
      /\ d.handed = st.handed /\ d.skipped = st.skipped /\ d.rep = st.rep
  BY DEF WellTyped
<1>2. /\ Tail(st.sends) \in Seq(Send)
      /\ DOMAIN d.sends = 1..(Len(st.sends) - 1)
      /\ \A i \in DOMAIN d.sends : i + 1 \in DOMAIN st.sends /\ d.sends[i] = st.sends[i + 1]
  BY <1>1, Fields, TailFacts
<1>3. WellTyped(d, w)
  BY <1>1, <1>2 DEF WellTyped
<1>4. ASSUME NEW i \in DOMAIN d.sends, NEW j \in DOMAIN d.sends, i < j
      PROVE  d.sends[i].id <= d.sends[j].id
  <2>1. i \in Int /\ j \in Int /\ i + 1 < j + 1
    BY <1>2, <1>4, Fields
  <2> QED  BY <1>2, <2>1 DEF Ordered
<1>5. Ordered(d, w)
  BY <1>1, <1>2, <1>4 DEF Ordered
<1> QED  BY <1>3, <1>5

\* handle_deliver_to_udp_peer: the completion of the oldest send pops whichever
\* reply is at the front and sends the next.
LEMMA StepDelivered ==
  ASSUME ReplyInv, handle_deliver_to_udp_peer
  PROVE  ReplyInv'
<1> DEFINE cur == Current(replies)
           st == [cur EXCEPT !.sends = Tail(@)]
<1>1. /\ cur.queue = m_tcpPacketQueue /\ cur.sends = sends /\ cur.crashed = crashed
      /\ cur.handed = handed /\ cur.skipped = skipped /\ cur.rep = replies
  BY DEF Current
<1>2. WellTyped(st, wire) /\ Ordered(st, wire)
  BY <1>1, SendDone DEF ReplyInv, handle_deliver_to_udp_peer
<1>3. /\ st.queue = m_tcpPacketQueue /\ st.sends = Tail(sends) /\ st.crashed = crashed
      /\ st.handed = handed /\ st.skipped = skipped /\ st.rep = replies
  BY DEF Current
<1>4. Accounted(st)
  BY <1>1, <1>3 DEF Accounted, ReplyInv
<1> HIDE DEF st
<1>5. CASE Head(sends).state = "failed"
  <2>1. Becomes(st) /\ failed' /\ UNCHANGED <<wire, overlap>>
    BY <1>5 DEF handle_deliver_to_udp_peer, st
  <2>2. Current(replies)' = st
    BY <1>2, <2>1 DEF Becomes, Current, WellTyped
  <2>3. FrontHanded' /\ StallHasCause'
    BY <1>3, <2>1 DEF ReplyInv, Becomes, FrontHanded, StallHasCause
  <2>4. RepliesInOrder'
    BY <2>1 DEF ReplyInv, RepliesInOrder
  <2>5. failed' \in BOOLEAN /\ overlap' \in BOOLEAN
    BY <1>5 DEF handle_deliver_to_udp_peer, ReplyInv
  <2> QED  BY <1>2, <1>4, <2>1, <2>2, <2>3, <2>4, <2>5 DEF ReplyInv
<1>6. CASE Head(sends).state # "failed" /\ st.queue = << >>
  <2>1. Becomes(st) /\ UNCHANGED <<wire, overlap, failed>>
    BY <1>6 DEF handle_deliver_to_udp_peer, st
  <2>2. Current(replies)' = st
    BY <1>2, <2>1 DEF Becomes, Current, WellTyped
  <2>3. FrontHanded' /\ StallHasCause'
    BY <1>6, <2>1 DEF Becomes, FrontHanded, StallHasCause
  <2>4. RepliesInOrder'
    BY <2>1 DEF ReplyInv, RepliesInOrder
  <2> QED  BY <1>2, <1>4, <2>1, <2>2, <2>3, <2>4 DEF ReplyInv
<1>7. CASE Head(sends).state # "failed" /\ st.queue # << >>
  <2> DEFINE popped == [st EXCEPT !.queue = Tail(st.queue)]
  <2>1. /\ Becomes(deliver_to_udp_peer(popped)) /\ UNCHANGED <<wire, failed>>
        /\ overlap' \in BOOLEAN
    BY <1>7 DEF handle_deliver_to_udp_peer, st, pop_tcp_packet, ReplyInv
  <2>2. WellTyped(popped, wire) /\ Ordered(popped, wire)
    BY <1>2, <1>7, PopKeeps
  <2>3. /\ popped.queue = Tail(st.queue) /\ popped.rep = st.rep
        /\ popped.handed = st.handed /\ popped.skipped = st.skipped
    BY <1>2 DEF WellTyped
  <2>4. Accounted(popped)
    <3> SUFFICES ASSUME ~st.skipped, NEW id \in DOMAIN st.rep, st.rep[id] = "peer",
                        \A j \in DOMAIN Tail(st.queue) : Tail(st.queue)[j] # id
                 PROVE  id \in st.handed
      BY <2>3 DEF Accounted
    <3>1. CASE id = Head(st.queue)
      BY <1>3, <1>7, <3>1 DEF ReplyInv, FrontHanded, handle_deliver_to_udp_peer
    <3>2. CASE id # Head(st.queue)
      <4>1. \A j \in DOMAIN st.queue : j = 1 \/
              (j - 1 \in DOMAIN Tail(st.queue) /\ Tail(st.queue)[j - 1] = st.queue[j])
        BY <1>2, <1>7, Fields, TailFacts, SMTT(30)
      <4>2. Head(st.queue) = st.queue[1]
        BY <1>2, <1>7, Fields, TailFacts
      <4> QED  BY <1>4, <3>2, <4>1, <4>2 DEF Accounted
    <3> QED  BY <3>1, <3>2
  <2> QED  BY <2>1, <2>2, <2>4, BecomesDelivered
<1> QED  BY <1>5, <1>6, <1>7

\* The oldest send that waits is performed, and its datagram is not overtaken:
\* every send that still waits is of a later reply or of the same one.
LEMMA StepPerformSend ==
  ASSUME ReplyInv, PerformSend
  PROVE  ReplyInv'
<1> DEFINE cur == Current(replies)
<1>1. /\ cur.queue = m_tcpPacketQueue /\ cur.sends = sends /\ cur.crashed = crashed
      /\ cur.handed = handed /\ cur.skipped = skipped /\ cur.rep = replies
      /\ WellTyped(cur, wire) /\ Ordered(cur, wire)
  BY DEF Current, ReplyInv
<1>2. PICK i \in DOMAIN sends :
        /\ sends[i].state = "queued"
        /\ \A j \in 1..(i - 1) : sends[j].state # "queued"
        /\ \/ /\ sends' = [sends EXCEPT ![i].state = "sent"]
              /\ wire' = Append(wire, sends[i].id) \/ wire' = Append(wire, Stale)
           \/ /\ sends' = [sends EXCEPT ![i].state = "failed"]
              /\ UNCHANGED wire
        /\ UNCHANGED <<m_tcpPacketQueue, crashed, replies, handed, overlap,
                       skipped, failed>>
  BY DEF PerformSend
<1>3. /\ sends \in Seq(Send) /\ Len(sends) \in Nat /\ DOMAIN sends = 1..Len(sends)
      /\ \A j \in DOMAIN sends : sends[j] \in Send /\ sends[j].id \in Int
  BY <1>1, Fields
<1>4. /\ sends' \in Seq(Send) /\ DOMAIN sends' = DOMAIN sends
      /\ \A j \in DOMAIN sends : sends'[j].id = sends[j].id
      /\ \A j \in DOMAIN sends : sends'[j].state = "queued" =>
           j # i /\ sends[j].state = "queued"
  <2> DEFINE with(c) == [sends EXCEPT ![i] = [id |-> sends[i].id, state |-> c]]
  <2>1. PICK c \in {"sent", "failed"} : sends' = [sends EXCEPT ![i].state = c]
    BY <1>2
  <2>2. [sends[i] EXCEPT !.state = c] = [id |-> sends[i].id, state |-> c]
    BY <1>2, <1>3 DEF Send
  <2>3. sends' = with(c)
    BY <2>1, <2>2
  <2>4. [id |-> sends[i].id, state |-> c] \in Send
    BY <1>2, <1>3 DEF Send
  <2> QED  BY <1>2, <1>3, <2>3, <2>4
<1>5. /\ wire' \in Seq(ReplyId \union {Stale})
      /\ \A n \in DOMAIN wire' : \/ n \in DOMAIN wire /\ wire'[n] = wire[n]
                                \/ /\ n = Len(wire) + 1
                                   /\ wire'[n] = Stale \/ wire'[n] = sends[i].id
      /\ Len(wire) \in Nat /\ DOMAIN wire = 1..Len(wire)
  <2>1. wire \in Seq(ReplyId \union {Stale})
    BY <1>1 DEF WellTyped
  <2>2. sends[i].id \in ReplyId \union {Stale} /\ Stale \in ReplyId \union {Stale}
    BY <1>2, <1>3 DEF Send
  <2>3. CASE UNCHANGED wire
    BY <2>1, <2>3
  <2>4. ASSUME NEW x \in {sends[i].id, Stale}, wire' = Append(wire, x)
        PROVE  <1>5!2 /\ wire' \in Seq(ReplyId \union {Stale})
    BY <2>1, <2>2, <2>4, AppendFacts
  <2> QED  BY <1>2, <2>1, <2>3, <2>4
<1> DEFINE new == Current(replies)'
<1>6. /\ new.queue = m_tcpPacketQueue /\ new.sends = sends' /\ new.crashed = crashed
      /\ new.handed = handed /\ new.skipped = skipped /\ new.rep = replies
  BY <1>2 DEF Current
<1>7. WellTyped(new, wire')
  <2>1. new = [cur EXCEPT !.sends = sends']
    BY <1>2 DEF Current
  <2> QED  BY <1>1, <1>4, <1>5, <1>6, <2>1 DEF WellTyped
<1> HIDE DEF cur, new
<1>8. \A j \in DOMAIN sends : sends'[j].state = "queued" => sends[i].id <= sends[j].id
  <2> SUFFICES ASSUME NEW j \in DOMAIN sends, sends'[j].state = "queued"
               PROVE  sends[i].id <= sends[j].id
    OBVIOUS
  <2>1. j # i /\ sends[j].state = "queued"
    BY <1>4
  <2>2. ~(j < i)
    BY <1>2, <1>3, <2>1
  <2>3. i < j
    BY <1>3, <2>1, <2>2
  <2> QED  BY <1>1, <2>3 DEF Ordered
<1>9. \A n \in DOMAIN wire' : wire'[n] # Stale =>
        /\ wire'[n] <= Len(replies)
        /\ \A j \in DOMAIN m_tcpPacketQueue : wire'[n] <= m_tcpPacketQueue[j]
        /\ \A j \in DOMAIN sends :
             sends'[j].state = "queued" => wire'[n] <= sends'[j].id
  <2> SUFFICES ASSUME NEW n \in DOMAIN wire', wire'[n] # Stale
               PROVE  /\ wire'[n] <= Len(replies)
                      /\ \A j \in DOMAIN m_tcpPacketQueue : wire'[n] <= m_tcpPacketQueue[j]
                      /\ \A j \in DOMAIN sends :
                           sends'[j].state = "queued" => wire'[n] <= sends'[j].id
    OBVIOUS
  <2>1. CASE n \in DOMAIN wire /\ wire'[n] = wire[n]
    BY <1>1, <1>4, <2>1 DEF Ordered
  <2>2. CASE wire'[n] = sends[i].id
    BY <1>1, <1>2, <1>4, <1>8, <2>2 DEF Ordered
  <2> QED  BY <1>5, <2>1, <2>2
<1>10. Ordered(new, wire')
  BY <1>1, <1>4, <1>6, <1>9 DEF Ordered
<1>11. RepliesInOrder'
  <2> SUFFICES ASSUME NEW m \in DOMAIN wire', NEW n \in DOMAIN wire', m < n,
                      wire'[m] # Stale, wire'[n] # Stale
               PROVE  wire'[m] <= wire'[n]
    BY DEF RepliesInOrder
  <2>1. m \in DOMAIN wire /\ wire'[m] = wire[m]
    BY <1>5
  <2>2. CASE n \in DOMAIN wire /\ wire'[n] = wire[n]
    BY <2>1, <2>2 DEF ReplyInv, RepliesInOrder
  <2>3. CASE wire'[n] = sends[i].id
    BY <1>1, <1>2, <2>1, <2>3 DEF Ordered
  <2> QED  BY <1>5, <2>2, <2>3
<1>12. Accounted(new) /\ FrontHanded' /\ StallHasCause'
  <2>1. sends' # << >>
    BY <1>2, <1>3, <1>4
  <2> QED  BY <1>1, <1>2, <1>6, <2>1 DEF Accounted, FrontHanded, StallHasCause, ReplyInv, cur
<1> QED  BY <1>2, <1>7, <1>10, <1>11, <1>12 DEF ReplyInv, new

\* No reply was read yet.
LEMMA ReplyInvInit == Init => ReplyInv
<1> SUFFICES ASSUME Init  PROVE ReplyInv
  OBVIOUS
<1>1. Current(replies) = [queue |-> << >>, sends |-> << >>, crashed |-> FALSE,
                          handed |-> {}, skipped |-> FALSE, rep |-> << >>]
  BY DEF Init, Current
<1>2. wire = << >> /\ \A S : << >> \in Seq(S)
  BY DEF Init
<1>3. WellTyped(Current(replies), wire)
  <2>1. 0 <= MaxReplies
    BY ReplyAssumption
  <2> QED  BY <1>1, <1>2, <2>1 DEF WellTyped
<1>4. Ordered(Current(replies), wire) /\ Accounted(Current(replies))
  BY <1>1, <1>2 DEF Ordered, Accounted
<1>5. FrontHanded /\ StallHasCause
  BY DEF Init, FrontHanded, StallHasCause
<1>6. RepliesInOrder
  BY <1>2 DEF RepliesInOrder
<1>7. overlap \in BOOLEAN /\ failed \in BOOLEAN
  BY DEF Init
<1> QED  BY <1>3, <1>4, <1>5, <1>6, <1>7 DEF ReplyInv

\* Every handler keeps the invariant.
LEMMA ReplyInvNext == ReplyInv /\ [Next]_vars => ReplyInv'
<1> SUFFICES ASSUME ReplyInv, [Next]_vars  PROVE ReplyInv'
  OBVIOUS
<1>1. CASE UNCHANGED vars
  <2>1. Current(replies)' = Current(replies) /\ wire' = wire
    BY <1>1 DEF vars, Current
  <2> QED  BY <1>1, <2>1 DEF vars, ReplyInv, FrontHanded, StallHasCause, RepliesInOrder
<1> QED  BY <1>1, StepRead, StepDelivered, StepPerformSend DEF Next

\* The inductive invariant of the reply path.
THEOREM ReplyInvariant == Spec => []ReplyInv
BY ReplyInvInit, ReplyInvNext, PTL DEF Spec

\* Datagrams are sent to the udp peers in the order in which F1 sent the
\* replies, whatever sends fail, overlap or are repeated.
THEOREM RepliesStayInOrder == Spec => []RepliesInOrder
<1>1. ReplyInv => RepliesInOrder
  BY DEF ReplyInv
<1> QED  BY <1>1, ReplyInvariant, PTL

\* A queue of replies that nobody sends has one of the two known causes.
THEOREM StallsHaveCause == Spec => []StallHasCause
<1>1. ReplyInv => StallHasCause
  BY DEF ReplyInv
<1> QED  BY <1>1, ReplyInvariant, PTL

\* Until a reply without a peer was dropped, no reply with a peer leaves the
\* queue unsent: the pop of handle_deliver_to_udp_peer, which takes whichever
\* reply is at the front, never takes one that was not handed on.
THEOREM RepliesHandedOn == Spec => []NotDroppedUnlessSkipped
<1>1. ReplyInv => NotDroppedUnlessSkipped
  <2> SUFFICES ASSUME ReplyInv  PROVE NotDroppedUnlessSkipped
    OBVIOUS
  <2>1. /\ Current(replies).queue = m_tcpPacketQueue /\ Current(replies).rep = replies
        /\ Current(replies).handed = handed /\ Current(replies).skipped = skipped
    BY DEF Current
  <2> QED  BY <2>1 DEF ReplyInv, Accounted, NotDroppedUnlessSkipped, NotDropped
<1> QED  BY <1>1, ReplyInvariant, PTL

\* Every variable keeps its type.
THEOREM ReplyTypeCorrect == Spec => []TypeOK
<1>1. ReplyInv => TypeOK
  BY DEF ReplyInv, WellTyped, Current, TypeOK
<1> QED  BY <1>1, ReplyInvariant, PTL

-----------------------------------------------------------------------------
(* Replies that never meet.                                                *)

\* As long as no reply meets another one and nothing fails, there is at most
\* one reply in the queue, it is the last one, and its one send is under way.
Serial ==
  ~overlap /\ ~skipped /\ ~failed /\ ~crashed =>
    /\ \A i \in DOMAIN wire : wire[i] = i
    /\ \/ m_tcpPacketQueue = << >> /\ sends = << >> /\ Len(wire) = Len(replies)
       \/ /\ m_tcpPacketQueue = <<Len(replies)>>
          /\ Len(sends) = 1 /\ sends[1].id = Len(replies)
          /\ Len(wire) = IF sends[1].state = "sent" THEN Len(replies)
                         ELSE Len(replies) - 1

\* The invariant contains the type of every variable.
LEMMA VariableTypes ==
  ASSUME ReplyInv
  PROVE  TypeOK
BY DEF ReplyInv, WellTyped, Current, TypeOK

\* The next reply is read when none is on its way.
LEMMA SerialRead ==
  ASSUME ReplyInv, Serial, NEW k \in Kinds, handle_read_payload(k)
  PROVE  Serial'
<1> DEFINE n == Len(replies) + 1
           st == Current(Append(replies, k))
           pushed == [st EXCEPT !.queue = Append(@, n)]
           d == deliver_to_udp_peer(add_tcp_packet(st, n))
<1> SUFFICES ASSUME ~overlap', ~skipped', ~failed', ~crashed'
             PROVE  /\ \A i \in DOMAIN wire : wire[i] = i
                    /\ m_tcpPacketQueue' = <<n>> /\ sends' = <<[id |-> n, state |-> "queued"]>>
                    /\ Len(wire) = n - 1 /\ Len(replies') = n /\ wire' = wire
  <2>1. <<[id |-> n, state |-> "queued"]>>[1].state # "sent"
        /\ <<[id |-> n, state |-> "queued"]>>[1].id = n
    OBVIOUS
  <2> QED  BY <2>1 DEF Serial
<1>1. /\ m_tcpPacketQueue = << >> /\ sends = << >> /\ ~overlap /\ ~failed /\ ~crashed
      /\ Becomes(d) /\ wire' = wire
  BY DEF handle_read_payload
<1>2. /\ st.queue = << >> /\ st.sends = << >> /\ st.crashed = crashed /\ st.skipped = skipped
      /\ st.rep = Append(replies, k)
      /\ pushed.queue = <<n>> /\ pushed.sends = << >> /\ pushed.crashed = crashed
      /\ pushed.rep = Append(replies, k) /\ pushed.skipped = skipped
  BY <1>1 DEF Current
<1>3. d = deliver_to_udp_peer(pushed)
  BY <1>2 DEF add_tcp_packet
<1>4. WellTyped(pushed, wire)
  <2>1. pushed = [Current(replies) EXCEPT !.rep = Append(replies, k),
                                          !.queue = Append(m_tcpPacketQueue, n)]
    <3>1. Current(Append(replies, k)).queue = m_tcpPacketQueue
      BY DEF Current
    <3>2. pushed = [Current(Append(replies, k)) EXCEPT !.queue = Append(m_tcpPacketQueue, n)]
      BY <3>1
    <3> QED  BY <3>2, RecordUpdate
  <2>2. Current(replies).rep = replies /\ Current(replies).queue = m_tcpPacketQueue
    BY DEF Current
  <2> QED  BY <2>1, <2>2, PushKeeps DEF ReplyInv, handle_read_payload
<1> HIDE DEF pushed, d
<1>5. /\ ~d.skipped /\ ~d.crashed /\ m_tcpPacketQueue' = d.queue /\ sends' = d.sends
      /\ replies' = d.rep
  BY <1>1 DEF Becomes
<1>6. /\ d = [pushed EXCEPT !.sends = Append(pushed.sends,
                               [id |-> Head(pushed.queue), state |-> "queued"]),
                            !.handed = pushed.handed \union {Head(pushed.queue)}]
      /\ ~skipped
  <2>1. pushed.queue # << >>
    BY <1>2
  <2>2. d # [pushed EXCEPT !.queue = Tail(pushed.queue), !.skipped = TRUE]
    BY <1>4, <1>5 DEF WellTyped
  <2>3. d # [pushed EXCEPT !.crashed = TRUE]
    BY <1>4, <1>5 DEF WellTyped
  <2>4. d = [pushed EXCEPT !.sends = Append(pushed.sends,
                               [id |-> Head(pushed.queue), state |-> "queued"]),
                            !.handed = pushed.handed \union {Head(pushed.queue)}]
    BY <1>1, <1>2, <1>3, <1>4, <2>1, <2>2, <2>3, DeliverCases
  <2> QED  BY <1>2, <1>4, <1>5, <2>4 DEF WellTyped
<1>7. /\ d.queue = <<n>> /\ d.sends = <<[id |-> n, state |-> "queued"]>>
      /\ d.rep = Append(replies, k)
  BY <1>2, <1>4, <1>6 DEF WellTyped
<1>8. (\A i \in DOMAIN wire : wire[i] = i) /\ Len(wire) = Len(replies)
  BY <1>1, <1>6 DEF Serial
<1>9. Len(Append(replies, k)) = n /\ Len(replies) \in Nat
  BY VariableTypes DEF TypeOK
<1> QED  BY <1>1, <1>5, <1>7, <1>8, <1>9

\* The completion of the only send leaves the queue empty.
LEMMA SerialDelivered ==
  ASSUME ReplyInv, Serial, handle_deliver_to_udp_peer
  PROVE  Serial'
<1> DEFINE st == [Current(replies) EXCEPT !.sends = Tail(@)]
           popped == pop_tcp_packet(st)
<1> SUFFICES ASSUME ~overlap', ~skipped', ~failed', ~crashed'
             PROVE  /\ \A i \in DOMAIN wire : wire[i] = i
                    /\ m_tcpPacketQueue' = << >> /\ sends' = << >>
                    /\ Len(wire) = Len(replies) /\ replies' = replies /\ wire' = wire
  BY DEF Serial
<1>1. /\ Head(sends).state # "failed" /\ Head(sends).state # "queued" /\ sends # << >>
      /\ ~overlap /\ ~failed /\ ~crashed /\ wire' = wire
      /\ Becomes(IF st.queue = << >> THEN st ELSE deliver_to_udp_peer(popped))
  BY DEF handle_deliver_to_udp_peer
<1>2. /\ st.queue = m_tcpPacketQueue /\ st.sends = Tail(sends) /\ st.skipped = skipped
      /\ st.rep = replies /\ st.crashed = crashed
      /\ popped.queue = Tail(m_tcpPacketQueue) /\ popped.sends = Tail(sends)
      /\ popped.skipped = skipped /\ popped.rep = replies /\ popped.crashed = crashed
  BY DEF Current, pop_tcp_packet
<1> HIDE DEF st, popped
<1>3. ASSUME skipped  PROVE FALSE
  <2>1. st.queue = << >> => skipped'
    BY <1>1, <1>2, <1>3 DEF Becomes
  <2>2. WellTyped(st, wire) /\ Ordered(st, wire)
    BY <1>1, SendDone DEF ReplyInv, st, Current
  <2>3. CASE st.queue # << >>
    <3>1. WellTyped(popped, wire) /\ Ordered(popped, wire)
      BY <2>2, <2>3, PopKeeps DEF popped, pop_tcp_packet
    <3>2. deliver_to_udp_peer(popped).skipped
      BY <1>2, <1>3, <3>1, DeliverKeeps
    <3> QED  BY <1>1, <2>3, <3>2 DEF Becomes
  <2> QED  BY <2>1, <2>3
<1>4. /\ \A i \in DOMAIN wire : wire[i] = i
      /\ m_tcpPacketQueue = <<Len(replies)>> /\ Len(sends) = 1
      /\ Len(wire) = IF sends[1].state = "sent" THEN Len(replies) ELSE Len(replies) - 1
  BY <1>1, <1>3 DEF Serial
<1>5. sends \in Seq(Send) /\ Head(sends) = sends[1] /\ Tail(sends) = << >>
  <2>1. sends \in Seq(Send)
    BY VariableTypes DEF TypeOK
  <2>2. Head(sends) = sends[1] /\ Tail(sends) \in Seq(Send) /\ Len(Tail(sends)) = 0
    BY <1>1, <1>4, <2>1, TailFacts
  <2> QED  BY <2>1, <2>2, EmptySeq
<1>6. sends[1].state = "sent"
  <2>1. sends[1] \in Send
    BY <1>4, <1>5, SMTT(30)
  <2> QED  BY <1>1, <1>5, <2>1 DEF Send
<1>7. popped.queue = << >> /\ st.queue # << >> /\ popped.sends = << >>
  BY <1>2, <1>4, <1>5
<1>8. deliver_to_udp_peer(popped) = popped
  BY <1>7 DEF deliver_to_udp_peer
<1> QED  BY <1>1, <1>2, <1>4, <1>6, <1>7, <1>8 DEF Becomes

\* The only send is performed: its datagram is the next on the wire.
LEMMA SerialPerformed ==
  ASSUME ReplyInv, Serial, PerformSend
  PROVE  Serial'
<1> SUFFICES ASSUME ~overlap', ~skipped', ~failed', ~crashed'
             PROVE  /\ \A i \in DOMAIN wire' : wire'[i] = i
                    /\ m_tcpPacketQueue' = <<Len(replies)>> /\ replies' = replies
                    /\ Len(sends') = 1 /\ sends'[1].id = Len(replies)
                    /\ Len(wire') = IF sends'[1].state = "sent" THEN Len(replies)
                                    ELSE Len(replies) - 1
  BY DEF Serial
<1>1. PICK i \in DOMAIN sends :
        /\ sends[i].state = "queued"
        /\ \/ /\ sends' = [sends EXCEPT ![i].state = "sent"]
              /\ \/ wire' = Append(wire, sends[i].id)
                 \/ \A j \in DOMAIN m_tcpPacketQueue : m_tcpPacketQueue[j] # sends[i].id
           \/ /\ sends' = [sends EXCEPT ![i].state = "failed"]
              /\ UNCHANGED wire
        /\ UNCHANGED <<m_tcpPacketQueue, crashed, replies, overlap, skipped, failed>>
  BY DEF PerformSend
<1>2. /\ sends \in Seq(Send) /\ wire \in Seq(ReplyId \union {Stale})
      /\ Len(replies) \in Nat
  BY VariableTypes DEF TypeOK
<1>3. /\ \A j \in DOMAIN wire : wire[j] = j
      /\ m_tcpPacketQueue = <<Len(replies)>> /\ Len(sends) = 1
      /\ sends[1].id = Len(replies)
      /\ Len(wire) = IF sends[1].state = "sent" THEN Len(replies) ELSE Len(replies) - 1
  BY <1>1, <1>2 DEF Serial
<1>4. i = 1 /\ sends[1] \in Send /\ Len(wire) = Len(replies) - 1
  <2>1. DOMAIN sends = 1..1
    BY <1>2, <1>3
  <2>2. i = 1
    BY <2>1
  <2>3. sends[1].state = "queued"
    BY <1>1, <2>2
  <2>4. sends \in Seq(Send)
    BY <1>2
  <2>5. sends[1] \in Send
    BY <2>4, <2>1, ElementOfSeq, 1 \in 1..1
  <2> QED  BY <1>3, <2>2, <2>3, <2>5
<1>5. ASSUME NEW c \in {"sent", "failed"}, sends' = [sends EXCEPT ![1].state = c]
      PROVE  Len(sends') = 1 /\ sends'[1].id = Len(replies) /\ sends'[1].state = c
  <2>1. [sends[1] EXCEPT !.state = c].id = Len(replies) /\ [sends[1] EXCEPT !.state = c].state = c
    BY <1>3, <1>4 DEF Send
  <2>2. sends'[1] = [sends[1] EXCEPT !.state = c] /\ Len(sends') = 1
    BY <1>2, <1>3, <1>5
  <2> QED  BY <2>1, <2>2
<1>6. CASE UNCHANGED wire /\ sends' = [sends EXCEPT ![i].state = "failed"]
  BY <1>1, <1>3, <1>4, <1>5, <1>6
<1>7. CASE wire' = Append(wire, sends[i].id) /\ sends' = [sends EXCEPT ![i].state = "sent"]
  <2>1. Len(replies) \in ReplyId \union {Stale}
    BY <1>3, <1>4 DEF Send
  <2>2. /\ DOMAIN wire' = 1..Len(replies) /\ Len(wire') = Len(replies)
        /\ \A j \in 1..(Len(replies) - 1) : wire'[j] = wire[j]
        /\ wire'[Len(replies)] = Len(replies)
        /\ DOMAIN wire = 1..(Len(replies) - 1)
    BY <1>2, <1>3, <1>4, <1>7, <2>1, AppendFacts
  <2>3. \A j \in DOMAIN wire' : wire'[j] = j
    BY <1>2, <1>3, <2>2
  <2> QED  BY <1>1, <1>3, <1>4, <1>5, <1>7, <2>2, <2>3
<1>8. ~\A j \in DOMAIN m_tcpPacketQueue : m_tcpPacketQueue[j] # sends[i].id
  BY <1>3, <1>4
<1> QED  BY <1>1, <1>6, <1>7, <1>8

\* Replies that come one at a time reach their peers exactly once and in
\* order; the duplicates and losses that the runs reply_duplicate and
\* reply_dropped show need two replies that meet, or a dropped one.
THEOREM SerialRepliesAreExact == Spec => []SerialRepliesExact
<1>1. Init => Serial
  <2> SUFFICES ASSUME Init  PROVE Serial
    OBVIOUS
  <2>1. wire = << >> /\ m_tcpPacketQueue = << >> /\ sends = << >> /\ replies = << >>
    BY DEF Init
  <2> QED  BY <2>1 DEF Serial
<1>2. ReplyInv /\ Serial /\ [Next]_vars => Serial'
  <2> SUFFICES ASSUME ReplyInv, Serial, [Next]_vars  PROVE Serial'
    OBVIOUS
  <2>1. CASE UNCHANGED vars
    BY <2>1 DEF vars, Serial
  <2> QED  BY <2>1, SerialRead, SerialDelivered, SerialPerformed DEF Next
<1>3. ReplyInv /\ Serial => SerialRepliesExact
  <2> SUFFICES ASSUME ReplyInv, Serial, ~overlap, ~skipped, ~failed, ~crashed
               PROVE  /\ \A i \in DOMAIN wire : wire[i] = i
                      /\ Len(replies) <= Len(wire) + 1
                      /\ sends = << >> => Len(wire) = Len(replies)
    BY DEF SerialRepliesExact
  <2>1. Len(replies) \in Nat
    BY VariableTypes DEF TypeOK
  <2>2. Len(sends) = 1 => sends # << >>
    OBVIOUS
  <2> QED  BY <2>1, <2>2 DEF Serial
<1> QED  BY <1>1, <1>2, <1>3, ReplyInvariant, PTL DEF Spec

-----------------------------------------------------------------------------
(* The packets themselves: RouterPacket.                                   *)

Byte   == Int
Length == 0..(Modulus - 1)
Packet == [m_payloadLength : Length, m_peerLength : Length,
           m_payload : [0..(Storage - 1) -> Byte]]

\* The last datagram in the packet that F1 gets, up to its end or the end of
\* m_payload, whichever comes first.
DatagramFramed ==
  /\ toTcp \in Packet
  /\ datagram.n > 0 =>
       /\ datagram.adr \in AdrSizes /\ datagram.size \in DatagramSizes
       /\ toTcp.m_peerLength = datagram.adr
       /\ toTcp.m_payloadLength = datagram.adr + datagram.size + PEER_LENGTH
       /\ \A i \in 0..(Storage - 1) :
            i < BodyAt + datagram.adr + datagram.size => toTcp.m_payload[i] = datagram.n

\* m_fromTcpPacket between two reads: empty before a header, then the header
\* of one reply and the end of text behind it.
ReadInPlace ==
  /\ m_fromTcp \in Packet
  /\ reading \in {"header", "payload", "nothing"}
  /\ reading # "nothing" =>
       /\ m_fromTcp.m_peerLength = 0
       /\ m_fromTcp.m_payloadLength <= MAX_PAYLOAD_SIZE
       /\ \A i \in HEADER_LENGTH..(Storage - 1) : m_fromTcp.m_payload[i] = Nul
  /\ reading = "payload" =>
       \A i \in 0..(HEADER_LENGTH - 1) : m_fromTcp.m_payload[i] = m_fromTcp.m_payload[0]

\* The reply last queued: its own bytes up to its end, and the end of text in
\* the room of the peer field that copy takes along behind them.
ReplyCopied ==
  /\ reply \in Packet
  /\ reply.m_peerLength <= reply.m_payloadLength
  /\ reply.m_payloadLength <= MAX_PAYLOAD_SIZE
  /\ reply.m_payloadLength > 0 =>
       \A i \in 0..(BodyAt + reply.m_payloadLength - 1) :
         reply.m_payload[i] =
           IF i < HEADER_LENGTH + reply.m_payloadLength THEN reply.m_payload[0] ELSE Nul

\* The inductive invariant.
PacketInv ==
  /\ message \in Nat
  /\ datagram.n \in Nat
  /\ DatagramFramed
  /\ ReadInPlace
  /\ ReplyCopied

-----------------------------------------------------------------------------
(* Lengths.                                                                *)

\* The sizes of the constants.
LEMMA Sizes ==
  /\ MAX_PAYLOAD_SIZE \in Nat /\ MAX_PAYLOAD_SIZE > 0
  /\ Modulus \in Nat /\ Modulus > 2 * (9999 + MAX_PAYLOAD_SIZE)
  /\ PeerData \in Nat
  /\ HEADER_LENGTH = 4 /\ PEER_LENGTH = 4 /\ BodyAt = 8
  /\ Storage = 8 + MAX_PAYLOAD_SIZE /\ Storage \in Nat
  /\ \A x \in AdrSizes : x \in Int /\ 1 <= x /\ x <= 9999
  /\ \A x \in DatagramSizes : x \in Int /\ 0 <= x /\ x <= MAX_PAYLOAD_SIZE
  /\ \A x \in FieldValues : x \in Int /\ 0 - 999 <= x /\ x <= 9999
<1>1. HEADER_LENGTH = 4 /\ PEER_LENGTH = 4 /\ BodyAt = 8 /\ Storage = 8 + MAX_PAYLOAD_SIZE
  BY DEF HEADER_LENGTH, PEER_LENGTH, BodyAt, Storage
<1>2. /\ MAX_PAYLOAD_SIZE \in Nat /\ MAX_PAYLOAD_SIZE > 0 /\ PeerData \in Nat
      /\ Storage \in Nat
  BY <1>1, PacketAssumption, SMTT(30)
<1>3. Modulus \in Nat /\ Modulus > 2 * (9999 + MAX_PAYLOAD_SIZE)
  BY PacketAssumption
<1>4. \A x \in AdrSizes : x \in Int /\ 1 <= x /\ x <= 9999
  <2>1. PICK h \in Int : h = 9999
    OBVIOUS
  <2>2. AdrSizes \subseteq 1..h
    BY <2>1, PacketAssumption, SMTT(30)
  <2>3. \A x \in AdrSizes : x \in Int /\ 1 <= x /\ x <= h
    BY <2>2
  <2> QED  BY <2>1, <2>3
<1>5. \A x \in DatagramSizes : x \in Int /\ 0 <= x /\ x <= MAX_PAYLOAD_SIZE
  <2>1. DatagramSizes \subseteq 0..MAX_PAYLOAD_SIZE
    BY PacketAssumption, SMTT(60)
  <2> QED  BY <1>2, <2>1
<1>6. \A x \in FieldValues : x \in Int /\ 0 - 999 <= x /\ x <= 9999
  <2>1. PICK l, h \in Int : l = 0 - 999 /\ h = 9999
    OBVIOUS
  <2>2. FieldValues \subseteq l..h
    BY <2>1, PacketAssumption, SMTT(30)
  <2>3. \A x \in FieldValues : x \in Int /\ l <= x /\ x <= h
    BY <2>2
  <2> QED  BY <2>1, <2>3
<1> QED  BY <1>1, <1>2, <1>3, <1>4, <1>5, <1>6

\* A length that fits is kept, a negative one wraps around, and every one is
\* a length.
LEMMA UnsignedFacts ==
  ASSUME NEW n \in Int
  PROVE  /\ Unsigned(n) \in Length
         /\ 0 <= n /\ n < Modulus => Unsigned(n) = n
         /\ n < 0 /\ 0 <= n + Modulus => Unsigned(n) = n + Modulus
<1>1. Modulus \in Nat /\ Modulus > 0
  BY Sizes
<1>2. n % Modulus \in 0..(Modulus - 1)
  BY <1>1
<1>3. 0 <= n /\ n < Modulus => n % Modulus = n
  BY <1>1
<1>4. n < 0 /\ 0 <= n + Modulus => n % Modulus = n + Modulus
  BY <1>1
<1> QED  BY <1>2, <1>3, <1>4 DEF Unsigned, Length

-----------------------------------------------------------------------------
(* Packets.                                                                *)

\* The fields of a packet.
LEMMA PacketFields ==
  ASSUME NEW pkt \in Packet
  PROVE  /\ pkt.m_payloadLength \in Int /\ pkt.m_payloadLength >= 0
         /\ pkt.m_peerLength \in Int /\ pkt.m_peerLength >= 0
         /\ pkt.m_payloadLength \in Length /\ pkt.m_peerLength \in Length
         /\ pkt.m_payload \in [0..(Storage - 1) -> Byte]
         /\ DOMAIN pkt.m_payload = 0..(Storage - 1)
<1>1. /\ pkt.m_payloadLength \in Length /\ pkt.m_peerLength \in Length
      /\ pkt.m_payload \in [0..(Storage - 1) -> Byte]
  BY DEF Packet
<1>2. \A l \in Length : l \in Int /\ l >= 0
  BY Sizes DEF Length
<1> QED  BY <1>1, <1>2

\* A packet has the fields it is changed to, and keeps the others.
LEMMA SetFields ==
  ASSUME NEW pkt \in Packet, NEW a \in Length, NEW b \in Length,
         NEW f \in [0..(Storage - 1) -> Byte]
  PROVE  /\ [pkt EXCEPT !.m_payloadLength = a] =
              [m_payloadLength |-> a, m_peerLength |-> pkt.m_peerLength,
               m_payload |-> pkt.m_payload]
         /\ [pkt EXCEPT !.m_peerLength = b] =
              [m_payloadLength |-> pkt.m_payloadLength, m_peerLength |-> b,
               m_payload |-> pkt.m_payload]
         /\ [pkt EXCEPT !.m_payload = f] =
              [m_payloadLength |-> pkt.m_payloadLength,
               m_peerLength |-> pkt.m_peerLength, m_payload |-> f]
         /\ [m_payloadLength |-> a, m_peerLength |-> b, m_payload |-> f] \in Packet
BY DEF Packet

\* memcpy changes the bytes in its range.
LEMMA StoreFacts ==
  ASSUME NEW pkt \in Packet, NEW at \in Int, NEW size \in Int, NEW n \in Byte
  PROVE  /\ Store(pkt, at, size, n) \in Packet
         /\ Store(pkt, at, size, n).m_payloadLength = pkt.m_payloadLength
         /\ Store(pkt, at, size, n).m_peerLength = pkt.m_peerLength
         /\ \A i \in 0..(Storage - 1) : Store(pkt, at, size, n).m_payload[i] =
              IF at <= i /\ i <= at + size - 1 THEN n ELSE pkt.m_payload[i]
<1> DEFINE f == [i \in 0..(Storage - 1) |->
                   IF i \in at..(at + size - 1) THEN n ELSE pkt.m_payload[i]]
<1>1. Store(pkt, at, size, n) = [pkt EXCEPT !.m_payload = f]
  BY PacketFields DEF Store
<1>2. f \in [0..(Storage - 1) -> Byte]
  BY PacketFields
<1>3. \A i \in 0..(Storage - 1) :
        f[i] = IF at <= i /\ i <= at + size - 1 THEN n ELSE pkt.m_payload[i]
  BY Sizes
<1> HIDE DEF f
<1> DEFINE r == [m_payloadLength |-> pkt.m_payloadLength,
                 m_peerLength |-> pkt.m_peerLength, m_payload |-> f]
<1>4. [pkt EXCEPT !.m_payload = f] = r /\ r \in Packet
  BY <1>2, SetFields, PacketFields
<1>5. /\ r.m_payloadLength = pkt.m_payloadLength /\ r.m_peerLength = pkt.m_peerLength
      /\ r.m_payload = f
  OBVIOUS
<1> HIDE DEF r
<1> QED  BY <1>1, <1>3, <1>4, <1>5

\* The copy has the bytes up to the end that the length gives.
LEMMA CopyFacts ==
  ASSUME NEW pkt \in Packet
  PROVE  /\ copy(pkt) \in Packet
         /\ copy(pkt).m_payloadLength = pkt.m_payloadLength
         /\ copy(pkt).m_peerLength = pkt.m_peerLength
         /\ pkt.m_payloadLength > 0 =>
              \A i \in 0..(Storage - 1) : i < BodyAt + pkt.m_payloadLength =>
                copy(pkt).m_payload[i] = pkt.m_payload[i]
<1> DEFINE f == [i \in 0..(Storage - 1) |->
                   IF pkt.m_payloadLength > 0 /\ i < BodyAt + pkt.m_payloadLength
                   THEN pkt.m_payload[i] ELSE None]
<1>1. copy(pkt) = [pkt EXCEPT !.m_payload = f]
  BY PacketFields DEF copy
<1>2. f \in [0..(Storage - 1) -> Byte]
  <2>1. None \in Byte
    BY DEF None, Byte
  <2>2. \A i \in 0..(Storage - 1) : pkt.m_payload[i] \in Byte
    BY PacketFields
  <2> QED  BY <2>1, <2>2
<1>3. pkt.m_payloadLength > 0 =>
        \A i \in 0..(Storage - 1) : i < BodyAt + pkt.m_payloadLength => f[i] = pkt.m_payload[i]
  OBVIOUS
<1> HIDE DEF f
<1> DEFINE r == [m_payloadLength |-> pkt.m_payloadLength,
                 m_peerLength |-> pkt.m_peerLength, m_payload |-> f]
<1>4. [pkt EXCEPT !.m_payload = f] = r /\ r \in Packet
  BY <1>2, SetFields, PacketFields
<1>5. /\ r.m_payloadLength = pkt.m_payloadLength /\ r.m_peerLength = pkt.m_peerLength
      /\ r.m_payload = f
  OBVIOUS
<1> HIDE DEF r
<1> QED  BY <1>1, <1>3, <1>4, <1>5

\* A new packet is all zero.
LEMMA EmptyFacts ==
  /\ NewPacket \in Packet
  /\ NewPacket.m_payloadLength = 0 /\ NewPacket.m_peerLength = 0
  /\ \A i \in 0..(Storage - 1) : NewPacket.m_payload[i] = Nul
<1>1. [i \in 0..(Storage - 1) |-> Nul] \in [0..(Storage - 1) -> Byte] /\ 0 \in Length
  BY Sizes DEF Nul, Byte, Length
<1> QED  BY <1>1 DEF NewPacket, Packet

\* A cleared packet is as a new one.
LEMMA ClearFacts ==
  ASSUME NEW pkt \in Packet
  PROVE  clear(pkt) = NewPacket
BY PacketFields DEF clear, NewPacket

\* A field of a packet that is not m_payload gets a new value.
LEMMA SetPeer ==
  ASSUME NEW pkt \in Packet, NEW b \in Length
  PROVE  /\ [pkt EXCEPT !.m_peerLength = b] \in Packet
         /\ [pkt EXCEPT !.m_peerLength = b].m_peerLength = b
         /\ [pkt EXCEPT !.m_peerLength = b].m_payloadLength = pkt.m_payloadLength
         /\ [pkt EXCEPT !.m_peerLength = b].m_payload = pkt.m_payload
BY DEF Packet

\* Likewise.
LEMMA SetPayload ==
  ASSUME NEW pkt \in Packet, NEW a \in Length
  PROVE  /\ [pkt EXCEPT !.m_payloadLength = a] \in Packet
         /\ [pkt EXCEPT !.m_payloadLength = a].m_payloadLength = a
         /\ [pkt EXCEPT !.m_payloadLength = a].m_peerLength = pkt.m_peerLength
         /\ [pkt EXCEPT !.m_payloadLength = a].m_payload = pkt.m_payload
BY DEF Packet

\* The packet made of a datagram: the lengths are exact, and every byte up to
\* its end that m_payload has room for is of this datagram.
LEMMA FrameFacts ==
  ASSUME NEW adr \in AdrSizes, NEW size \in DatagramSizes, NEW n \in Byte
  PROVE  LET pkt == copy(encode_header(
                      set_packet_data(set_peer_data(NewPacket, adr, n), size, n), n))
         IN  /\ pkt \in Packet
             /\ pkt.m_peerLength = adr
             /\ pkt.m_payloadLength = adr + size + PEER_LENGTH
             /\ \A i \in 0..(Storage - 1) :
                  i < BodyAt + adr + size => pkt.m_payload[i] = n
<1>1. /\ adr \in Int /\ 1 <= adr /\ adr <= 9999
      /\ size \in Int /\ 0 <= size /\ size <= MAX_PAYLOAD_SIZE
  BY Sizes
<1>2. adr \in Length
  BY <1>1, Sizes DEF Length
<1> DEFINE p1 == [NewPacket EXCEPT !.m_peerLength = adr]
           p2 == Store(p1, BodyAt, adr, n)
           l  == Unsigned(size + p2.m_peerLength + PEER_LENGTH)
           p3 == [p2 EXCEPT !.m_payloadLength = l]
           p4 == Store(p3, BodyAt + p2.m_peerLength, size, n)
           p5 == Store(p4, 0, HEADER_LENGTH, n)
           p6 == Store(p5, HEADER_LENGTH, PEER_LENGTH, n)
<1>3. encode_header(set_packet_data(set_peer_data(NewPacket, adr, n), size, n), n) = p6
  BY DEF encode_header, set_packet_data, set_peer_data
<1>4. p1 \in Packet /\ p1.m_peerLength = adr
  BY <1>2, EmptyFacts, SetPeer
<1> HIDE DEF p1
<1>5. /\ p2 \in Packet /\ p2.m_peerLength = adr
      /\ \A i \in 0..(Storage - 1) : 8 <= i /\ i <= 7 + adr => p2.m_payload[i] = n
  BY <1>1, <1>4, Sizes, StoreFacts
<1> HIDE DEF p2
<1>6. l = adr + size + 4 /\ l \in Length
  BY <1>1, <1>5, Sizes, UnsignedFacts
<1> HIDE DEF l
<1>7. /\ p3 \in Packet /\ p3.m_peerLength = adr /\ p3.m_payloadLength = adr + size + 4
      /\ \A i \in 0..(Storage - 1) : 8 <= i /\ i <= 7 + adr => p3.m_payload[i] = n
  BY <1>5, <1>6, SetPayload
<1> HIDE DEF p3
<1>8. /\ p4 \in Packet /\ p4.m_peerLength = adr /\ p4.m_payloadLength = adr + size + 4
      /\ \A i \in 0..(Storage - 1) : 8 <= i /\ i <= 7 + adr + size => p4.m_payload[i] = n
  <2>1. 8 + adr \in Int /\ BodyAt + p2.m_peerLength = 8 + adr
    BY <1>1, <1>5, Sizes
  <2> QED  BY <1>1, <1>7, <2>1, Sizes, StoreFacts
<1> HIDE DEF p4
<1>9. /\ p5 \in Packet /\ p5.m_peerLength = adr /\ p5.m_payloadLength = adr + size + 4
      /\ \A i \in 0..(Storage - 1) :
           i <= 3 \/ (8 <= i /\ i <= 7 + adr + size) => p5.m_payload[i] = n
  BY <1>1, <1>8, Sizes, StoreFacts
<1> HIDE DEF p5
<1>10. /\ p6 \in Packet /\ p6.m_peerLength = adr /\ p6.m_payloadLength = adr + size + 4
       /\ \A i \in 0..(Storage - 1) : i <= 7 + adr + size => p6.m_payload[i] = n
  BY <1>1, <1>9, Sizes, StoreFacts
<1> HIDE DEF p6
<1>11. /\ copy(p6) \in Packet
       /\ copy(p6).m_peerLength = adr /\ copy(p6).m_payloadLength = adr + size + 4
       /\ \A i \in 0..(Storage - 1) : i < 8 + adr + size + 4 => copy(p6).m_payload[i] = p6.m_payload[i]
  BY <1>1, <1>10, Sizes, CopyFacts
<1>12. \A i \in 0..(Storage - 1) : i < BodyAt + adr + size => copy(p6).m_payload[i] = n
  BY <1>1, <1>10, <1>11, Sizes
<1> QED  BY <1>3, <1>11, <1>12, Sizes

-----------------------------------------------------------------------------
(* The steps.                                                              *)

\* No packet was built or read yet.
LEMMA PacketInvInit == PacketInit => PacketInv
<1> SUFFICES ASSUME PacketInit PROVE PacketInv
  OBVIOUS
<1>1. NewPacket \in Packet
  BY EmptyFacts
<1>2. toTcp = NewPacket /\ m_fromTcp = NewPacket /\ reply = NewPacket
  BY DEF PacketInit
<1>3. datagram.n = 0 /\ message \in Nat /\ reading = "header"
  BY DEF PacketInit
<1>4. DatagramFramed
  BY <1>1, <1>2, <1>3 DEF DatagramFramed
<1>5. ReadInPlace
  BY <1>1, <1>2, <1>3, EmptyFacts, Sizes DEF ReadInPlace
<1>6. ReplyCopied
  BY <1>1, <1>2, EmptyFacts, Sizes DEF ReplyCopied
<1> QED  BY <1>3, <1>4, <1>5, <1>6 DEF PacketInv

\* deliver_from_udp_peer: the packet of a datagram.
LEMMA StepPrepare ==
  ASSUME PacketInv, NEW adr \in AdrSizes, NEW size \in DatagramSizes,
         PrepareDatagram(adr, size)
  PROVE  PacketInv'
<1> DEFINE n == message + 1
<1>1. n \in Nat /\ n > 0 /\ n \in Byte
  BY DEF PacketInv, Byte
<1>2. /\ message' = n /\ datagram' = [adr |-> adr, size |-> size, n |-> n]
      /\ toTcp' = copy(encode_header(
                    set_packet_data(set_peer_data(NewPacket, adr, n), size, n), n))
      /\ UNCHANGED <<m_fromTcp, reply, reading>>
  BY DEF PrepareDatagram
<1> HIDE DEF n
<1>3. datagram'.adr = adr /\ datagram'.size = size /\ datagram'.n = n
  BY <1>2
<1>4. DatagramFramed'
  BY <1>1, <1>2, <1>3, FrameFacts DEF DatagramFramed
<1>5. ReadInPlace' /\ ReplyCopied'
  BY <1>2 DEF PacketInv, ReadInPlace, ReplyCopied
<1> QED  BY <1>1, <1>2, <1>3, <1>4, <1>5 DEF PacketInv

\* The header of a reply was read: decode_header refuses a length above
\* MAX_PAYLOAD_SIZE, a negative one included because it wraps around.
LEMMA StepReadHeader ==
  ASSUME PacketInv, NEW value \in FieldValues, ReadHeader(value)
  PROVE  PacketInv'
<1> DEFINE n   == message + 1
           got == Store(m_fromTcp, 0, HEADER_LENGTH, n)
           l   == IF Unsigned(value) > MAX_PAYLOAD_SIZE THEN 0 ELSE Unsigned(value)
<1>1. n \in Nat /\ n \in Byte
  BY DEF PacketInv, Byte
<1>2. /\ reading = "header" /\ message' = n
      /\ m_fromTcp' = [got EXCEPT !.m_payloadLength = l]
      /\ reading' \in {"payload", "nothing"}
      /\ UNCHANGED <<toTcp, reply, datagram>>
  BY DEF ReadHeader, decode_header
<1> HIDE DEF n
<1>3. /\ m_fromTcp \in Packet /\ m_fromTcp.m_peerLength = 0
      /\ \A i \in 4..(Storage - 1) : m_fromTcp.m_payload[i] = Nul
  BY <1>2, Sizes DEF PacketInv, ReadInPlace
<1>4. /\ got \in Packet /\ got.m_peerLength = 0
      /\ \A i \in 4..(Storage - 1) : got.m_payload[i] = Nul
      /\ \A i \in 0..3 : got.m_payload[i] = n
  BY <1>1, <1>3, Sizes, StoreFacts
<1>5. l \in Length /\ l <= MAX_PAYLOAD_SIZE
  <2>1. Unsigned(value) \in Length
    BY Sizes, UnsignedFacts
  <2> QED  BY <2>1, Sizes DEF Length
<1> HIDE DEF got, l
<1>6. /\ m_fromTcp' \in Packet /\ m_fromTcp'.m_peerLength = 0
      /\ m_fromTcp'.m_payloadLength = l
      /\ m_fromTcp'.m_payload = got.m_payload
  BY <1>2, <1>4, <1>5, SetPayload
<1>7. ReadInPlace'
  BY <1>2, <1>4, <1>5, <1>6, Sizes DEF ReadInPlace
<1>8. DatagramFramed' /\ ReplyCopied'
  BY <1>2 DEF PacketInv, DatagramFramed, ReplyCopied
<1> QED  BY <1>1, <1>2, <1>7, <1>8 DEF PacketInv

\* The payload of a reply was read: what is queued is the reply, with the end
\* of text where it was shorter than the packet copies.
LEMMA StepReadPayload ==
  ASSUME PacketInv, NEW value \in FieldValues, ReadPayload(value)
  PROVE  PacketInv'
<1> DEFINE n   == m_fromTcp.m_payload[0]
           len == m_fromTcp.m_payloadLength
           got == Store(m_fromTcp, HEADER_LENGTH, len, n)
           p   == IF Unsigned(value) > got.m_payloadLength THEN 0 ELSE Unsigned(value)
           dec == [got EXCEPT !.m_peerLength = p]
<1>1. /\ reading = "payload"
      /\ m_fromTcp' = clear(got)
      /\ \/ len > 0 /\ reply' = copy(dec) /\ reading' = "header"
         \/ UNCHANGED reply /\ reading' = "nothing"
      /\ UNCHANGED <<toTcp, message, datagram>>
  BY DEF ReadPayload, decode_peer
<1>2. /\ m_fromTcp \in Packet /\ len <= MAX_PAYLOAD_SIZE
      /\ \A i \in 4..(Storage - 1) : m_fromTcp.m_payload[i] = Nul
      /\ \A i \in 0..3 : m_fromTcp.m_payload[i] = n
  BY <1>1, Sizes DEF PacketInv, ReadInPlace
<1>3. len \in Int /\ 0 <= len /\ n \in Byte
  BY <1>2, PacketFields, Sizes
<1> HIDE DEF len, n
<1>4. /\ got \in Packet /\ got.m_payloadLength = len
      /\ \A i \in 0..(Storage - 1) : got.m_payload[i] = IF i < 4 + len THEN n ELSE Nul
  <2>1. /\ got \in Packet /\ got.m_payloadLength = len
        /\ \A i \in 0..(Storage - 1) : got.m_payload[i] =
             IF 4 <= i /\ i <= 4 + len - 1 THEN n ELSE m_fromTcp.m_payload[i]
    BY <1>2, <1>3, Sizes, StoreFacts DEF len
  <2> QED  BY <1>2, <1>3, <2>1, Sizes
<1> HIDE DEF got
<1>5. p \in Length /\ p <= len
  <2>1. Unsigned(value) \in Length
    BY Sizes, UnsignedFacts
  <2> QED  BY <1>3, <1>4, <2>1, Sizes DEF Length
<1> HIDE DEF p
<1>6. /\ dec \in Packet /\ dec.m_payloadLength = len /\ dec.m_peerLength = p
      /\ dec.m_payload = got.m_payload
  BY <1>4, <1>5, SetPeer
<1> HIDE DEF dec
<1>7. ReadInPlace'
  <2>1. m_fromTcp' = NewPacket /\ reading' \in {"header", "nothing"}
    BY <1>1, <1>4, ClearFacts
  <2> QED  BY <1>4, <2>1, EmptyFacts, Sizes DEF ReadInPlace
<1>8. ReplyCopied'
  <2>1. CASE UNCHANGED reply
    BY <2>1 DEF PacketInv, ReplyCopied
  <2>2. CASE len > 0 /\ reply' = copy(dec)
    <3>1. /\ reply' \in Packet /\ reply'.m_payloadLength = len /\ reply'.m_peerLength = p
          /\ \A i \in 0..(Storage - 1) : i < 8 + len => reply'.m_payload[i] = got.m_payload[i]
      BY <1>3, <1>6, <2>2, CopyFacts, Sizes
    <3>2. 8 + len - 1 <= Storage - 1
      BY <1>2, <1>3, Sizes
    <3>3. \A i \in 0..(8 + len - 1) : reply'.m_payload[i] = IF i < 4 + len THEN n ELSE Nul
      BY <1>3, <1>4, <3>1, <3>2, Sizes
    <3>4. reply'.m_payload[0] = n
      BY <1>3, <3>3
    <3> QED  BY <1>2, <1>3, <1>5, <3>1, <3>3, <3>4, Sizes DEF ReplyCopied
  <2> QED  BY <1>1, <2>1, <2>2
<1>9. DatagramFramed'
  BY <1>1 DEF PacketInv, DatagramFramed
<1> QED  BY <1>1, <1>7, <1>8, <1>9 DEF PacketInv

\* Every step keeps the invariant.
LEMMA PacketInvNext == PacketInv /\ [PacketNext]_packetVars => PacketInv'
<1> SUFFICES ASSUME PacketInv, [PacketNext]_packetVars PROVE PacketInv'
  OBVIOUS
<1>1. CASE NewSession
  <2>1. /\ m_fromTcp' = NewPacket /\ reading' = "header"
        /\ UNCHANGED <<toTcp, reply, message, datagram>>
    BY <1>1 DEF NewSession
  <2>2. ReadInPlace'
    BY <2>1, EmptyFacts, Sizes DEF ReadInPlace
  <2>3. DatagramFramed' /\ ReplyCopied'
    BY <2>1 DEF PacketInv, DatagramFramed, ReplyCopied
  <2> QED  BY <2>1, <2>2, <2>3 DEF PacketInv
<1>2. CASE UNCHANGED packetVars
  BY <1>2 DEF packetVars, PacketInv, DatagramFramed, ReadInPlace, ReplyCopied
<1> QED  BY <1>1, <1>2, StepPrepare, StepReadHeader, StepReadPayload DEF PacketNext

\* What the three packets hold, byte by byte, in every reachable state.
THEOREM PacketsInPlace == PacketSpec => []PacketInv
BY PacketInvInit, PacketInvNext, PTL DEF PacketSpec

\* F1 finds every datagram again in the packet made of it, as long as the
\* packet is one decode_header accepts.
THEOREM FramesStayExact == PacketSpec => []FramesExact
<1>1. PacketInv => FramesExact
  <2> SUFFICES ASSUME PacketInv, datagram.n > 0, toTcp.m_payloadLength <= MAX_PAYLOAD_SIZE
               PROVE  LET fields == decode_peer(
                            decode_header(toTcp, toTcp.m_payloadLength).pkt, toTcp.m_peerLength)
                      IN  /\ fields.ok
                          /\ packet_data_length(fields.pkt) = datagram.size
                          /\ data_length(toTcp) = BodyAt + datagram.adr + datagram.size
                          /\ From(toTcp, 0..(data_length(toTcp) - 1), {datagram.n})
    BY DEF FramesExact
  <2> DEFINE l == toTcp.m_payloadLength
             a == toTcp.m_peerLength
             h == [toTcp EXCEPT !.m_payloadLength = l]
             f == [h EXCEPT !.m_peerLength = a]
  <2>1. /\ toTcp \in Packet
        /\ datagram.adr \in AdrSizes /\ datagram.size \in DatagramSizes
        /\ a = datagram.adr /\ l = datagram.adr + datagram.size + 4
        /\ \A i \in 0..(Storage - 1) :
             i < 8 + datagram.adr + datagram.size => toTcp.m_payload[i] = datagram.n
    BY Sizes DEF PacketInv, DatagramFramed
  <2>2. /\ datagram.adr \in Int /\ 1 <= datagram.adr /\ datagram.adr <= 9999
        /\ datagram.size \in Int /\ 0 <= datagram.size
        /\ l \in Length /\ a \in Length /\ l <= MAX_PAYLOAD_SIZE
        /\ DOMAIN toTcp.m_payload = 0..(Storage - 1)
    BY <2>1, Sizes, PacketFields
  <2> HIDE DEF l, a
  <2>3. Unsigned(l) = l /\ Unsigned(a) = a /\ Unsigned(4 + l) = 4 + l /\ Unsigned(l - a - 4) = l - a - 4
    BY <2>1, <2>2, Sizes, UnsignedFacts
  <2>4. decode_header(toTcp, l).pkt = h
    <3>1. ~(l > MAX_PAYLOAD_SIZE)
      BY <2>1, <2>2, Sizes
    <3> QED  BY <2>3, <3>1 DEF decode_header
  <2>5. h \in Packet /\ h.m_payloadLength = l
    BY <2>1, <2>2, SetPayload
  <2>6. decode_peer(h, a).ok /\ decode_peer(h, a).pkt = f
    <3>1. ~(a > l) /\ a <= l
      BY <2>1, <2>2
    <3> QED  BY <2>3, <2>5, <3>1 DEF decode_peer
  <2>7. f.m_payloadLength = l /\ f.m_peerLength = a
    BY <2>2, <2>5, SetPeer
  <2>8. packet_data_length(f) = datagram.size
    BY <2>1, <2>2, <2>3, <2>7, Sizes, SMTT(30) DEF packet_data_length
  <2>9. data_length(toTcp) = 8 + datagram.adr + datagram.size
    BY <2>1, <2>2, <2>3, Sizes, SMTT(30) DEF data_length, l
  <2>10. From(toTcp, 0..(data_length(toTcp) - 1), {datagram.n})
    <3>1. \A i \in 0..(data_length(toTcp) - 1) :
            i \in 0..(Storage - 1) /\ i < 8 + datagram.adr + datagram.size
      BY <2>1, <2>2, <2>9, Sizes, SMTT(30)
    <3> QED  BY <2>1, <2>2, <3>1 DEF From
  <2> QED  BY <2>4, <2>6, <2>8, <2>9, <2>10, Sizes DEF l, a
<1> QED  BY <1>1, PacketsInPlace, PTL

\* A datagram is written inside m_payload exactly when it leaves room for the
\* peer field, and exactly then the other side accepts the packet.
THEOREM StorageStaysBound == PacketSpec => []StorageBound
<1>1. PacketInv => StorageBound
  <2> SUFFICES ASSUME PacketInv, datagram.n > 0
               PROVE  LET fits == datagram.adr + datagram.size + PEER_LENGTH <= MAX_PAYLOAD_SIZE
                      IN  /\ decode_header(toTcp, toTcp.m_payloadLength).ok <=> fits
                          /\ ~Overruns(toTcp, datagram.size) <=> fits
    BY DEF StorageBound
  <2>1. /\ datagram.adr \in AdrSizes /\ datagram.size \in DatagramSizes
        /\ toTcp.m_peerLength = datagram.adr
        /\ toTcp.m_payloadLength = datagram.adr + datagram.size + 4
    BY Sizes DEF PacketInv, DatagramFramed
  <2>2. /\ datagram.adr \in Int /\ 1 <= datagram.adr /\ datagram.adr <= 9999
        /\ datagram.size \in Int /\ 0 <= datagram.size /\ datagram.size <= MAX_PAYLOAD_SIZE
    BY <2>1, Sizes
  <2>3. Unsigned(datagram.adr + datagram.size + 4) = datagram.adr + datagram.size + 4
    BY <2>2, Sizes, UnsignedFacts
  <2>4. decode_header(toTcp, toTcp.m_payloadLength).ok
          <=> datagram.adr + datagram.size + 4 <= MAX_PAYLOAD_SIZE
    BY <2>1, <2>3 DEF decode_header
  <2>5. ~Overruns(toTcp, datagram.size)
          <=> datagram.adr + datagram.size + 4 <= MAX_PAYLOAD_SIZE
    BY <2>1, <2>2, Sizes DEF Overruns, get_packet_data
  <2> QED  BY <2>4, <2>5, Sizes
<1> QED  BY <1>1, PacketsInPlace, PTL

\* A reply that leaves room for its peer field reaches its peer whole, and
\* nothing of an earlier reply does, although packets are reused.
THEOREM RepliesStayWhole == PacketSpec => []ReplyWhole
<1> DEFINE l == reply.m_payloadLength
           a == reply.m_peerLength
           n == reply.m_payload[0]
<1>1. ASSUME PacketInv
      PROVE  /\ reply \in Packet /\ l \in Int /\ 0 <= l /\ l <= MAX_PAYLOAD_SIZE
             /\ a \in Int /\ 0 <= a /\ a <= l
             /\ DOMAIN reply.m_payload = 0..(Storage - 1)
             /\ l > 0 => \A i \in 0..(8 + l - 1) :
                  i \in DOMAIN reply.m_payload /\ reply.m_payload[i] = IF i < 4 + l THEN n ELSE Nul
  <2>1. /\ reply \in Packet /\ a <= l /\ l <= MAX_PAYLOAD_SIZE
        /\ l > 0 => \A i \in 0..(8 + l - 1) : reply.m_payload[i] = IF i < 4 + l THEN n ELSE Nul
    BY <1>1, Sizes DEF PacketInv, ReplyCopied
  <2>2. /\ l \in Int /\ 0 <= l /\ a \in Int /\ 0 <= a
        /\ DOMAIN reply.m_payload = 0..(Storage - 1)
    BY <2>1, PacketFields
  <2>3. \A i \in 0..(8 + l - 1) : i \in 0..(Storage - 1)
    BY <2>1, <2>2, Sizes
  <2> QED  BY <2>1, <2>2, <2>3
<1>2. PacketInv => BodyWhole
  <2> SUFFICES ASSUME PacketInv, l > 0
               PROVE  /\ packet_data_length(reply) <= MAX_PAYLOAD_SIZE <=> a + PEER_LENGTH <= l
                      /\ packet_data_length(reply) <= MAX_PAYLOAD_SIZE =>
                           /\ From(reply, BodyAt..(data_length(reply) - 1), {n})
                           /\ get_packet_data(reply) + packet_data_length(reply) = data_length(reply)
    BY DEF BodyWhole
  <2>1. packet_data_length(reply) = Unsigned(l - a - 4) /\ data_length(reply) = Unsigned(4 + l)
    BY Sizes DEF packet_data_length, data_length
  <2>2. get_packet_data(reply) = 8 + a
    BY Sizes DEF get_packet_data
  <2>3. l - a - 4 \in Int /\ 4 + l \in Int
    BY <1>1
  <2>4. Unsigned(l - a - 4) = IF l - a - 4 >= 0 THEN l - a - 4 ELSE l - a - 4 + Modulus
    BY <1>1, <2>3, UnsignedFacts, Sizes
  <2>5. Unsigned(4 + l) = 4 + l
    BY <1>1, <2>3, UnsignedFacts, Sizes
  <2>6. Unsigned(l - a - 4) <= MAX_PAYLOAD_SIZE <=> a + 4 <= l
    BY <1>1, <2>4, Sizes, SMTT(30)
  <2>7. From(reply, 8..(4 + l - 1), {n})
    <3>1. \A i \in 8..(4 + l - 1) : i \in 0..(8 + l - 1) /\ i < 4 + l
      BY <1>1
    <3> QED  BY <1>1, <3>1 DEF From
  <2>8. a + 4 <= l => 8 + a + Unsigned(l - a - 4) = 4 + l
    BY <1>1, <2>4, SMTT(30)
  <2>9. PEER_LENGTH = 4 /\ BodyAt = 8 /\ l \in Int
    BY <1>1, Sizes
  <2> HIDE DEF l, a, n
  <2>10. packet_data_length(reply) <= MAX_PAYLOAD_SIZE <=> a + PEER_LENGTH <= l
    BY <2>1, <2>6, <2>9
  <2>11. From(reply, BodyAt..(data_length(reply) - 1), {n})
    <3>1. BodyAt..(data_length(reply) - 1) = 8..(4 + l - 1)
      BY <2>1, <2>5, <2>9
    <3> QED  BY <2>7, <3>1
  <2>12. a + PEER_LENGTH <= l =>
           get_packet_data(reply) + packet_data_length(reply) = data_length(reply)
    BY <2>1, <2>2, <2>5, <2>8, <2>9
  <2> QED  BY <2>10, <2>11, <2>12
<1>3. PacketInv => PeerFieldFresh
  <2> SUFFICES ASSUME PacketInv PROVE PeerFieldFresh
    OBVIOUS
  <2>1. l > 0 => From(reply, HEADER_LENGTH..(BodyAt - 1), {n, Nul})
    <3>1. l > 0 => \A i \in 4..7 : i \in 0..(8 + l - 1)
      BY <1>1
    <3>2. HEADER_LENGTH..(BodyAt - 1) = 4..7
      BY Sizes
    <3> QED  BY <1>1, <3>1, <3>2 DEF From
  <2>2. get_peer_data(reply) =>
          From(reply, BodyAt..(get_packet_data(reply) - 1), {n, Nul})
    <3> SUFFICES ASSUME a > 0 PROVE From(reply, 8..(8 + a - 1), {n, Nul})
      <4>1. BodyAt = 8 /\ get_packet_data(reply) = 8 + a /\ a \in Int
        BY <1>1, Sizes DEF get_packet_data
      <4>2. get_peer_data(reply) => a > 0
        BY DEF get_peer_data
      <4> HIDE DEF a
      <4>3. BodyAt..(get_packet_data(reply) - 1) = 8..(8 + a - 1)
        BY <4>1
      <4> QED  BY <4>2, <4>3
    <3>1. l > 0 /\ \A i \in 8..(8 + a - 1) : i \in 0..(8 + l - 1)
      BY <1>1
    <3> QED  BY <1>1, <3>1 DEF From
  <2>3. reading = "payload" => From(m_fromTcp, HEADER_LENGTH..(Storage - 1), {Nul})
    <3> SUFFICES ASSUME reading = "payload"
                 PROVE  From(m_fromTcp, HEADER_LENGTH..(Storage - 1), {Nul})
      OBVIOUS
    <3>1. /\ m_fromTcp \in Packet
          /\ \A i \in HEADER_LENGTH..(Storage - 1) : m_fromTcp.m_payload[i] = Nul
      BY DEF PacketInv, ReadInPlace
    <3>2. \A i \in HEADER_LENGTH..(Storage - 1) : i \in 0..(Storage - 1)
      BY Sizes
    <3> QED  BY <3>1, <3>2, PacketFields DEF From
  <2> QED  BY <2>1, <2>2, <2>3 DEF PeerFieldFresh
<1> QED  BY <1>2, <1>3, PacketsInPlace, PTL DEF ReplyWhole
=============================================================================
