------------------------------- MODULE AdrTuple -------------------------------
(***************************************************************************)
(* The key of SessionManager's table.  deliver_from_udp_peer looks for the *)
(* session of a peer by comparing every tuple with ==; std::map stores and *)
(* erases by the order <.  The map is a search tree: the place a descent   *)
(* ends at depends on its shape, which is left open (LowerBounds).         *)
(***************************************************************************)
EXTENDS Integers, Sequences, SequencesExt

CONSTANTS
  Transports,   \* None, UDP, TCP: 0, 1, 2
  Addresses,    \* ip::address values, in the order of ip::address (external)
  Ports

ASSUME TupleAssumption ==
  Transports \subseteq 0..2 /\ Addresses \subseteq Nat /\ Ports \subseteq Nat

Tuple == [m_transport : Transports, m_adr : Addresses, m_nPort : Ports]

VARIABLE keys    \* m_udpSessions: its keys, in the order the map keeps

Equal(a, b) ==
  /\ a.m_transport = b.m_transport
  /\ a.m_adr = b.m_adr
  /\ a.m_nPort = b.m_nPort

\* Fault: the ports are compared whatever the addresses are.
Less_PortAlone(a, b) ==
  \/ a.m_transport < b.m_transport
  \/ /\ a.m_transport = b.m_transport
     /\ a.m_adr < b.m_adr \/ a.m_nPort < b.m_nPort

Less(a, b) ==
  \/ a.m_transport < b.m_transport
  \/ /\ a.m_transport = b.m_transport
     /\ \/ a.m_adr < b.m_adr
        \/ a.m_adr = b.m_adr /\ a.m_nPort < b.m_nPort

\* std::map::lower_bound: the places where a descent to key k can end.
LowerBounds(k) ==
  {i \in 1..(Len(keys) + 1) :
     /\ i > 1 => Less(keys[i - 1], k)
     /\ i <= Len(keys) => ~Less(keys[i], k)}

\* std::map::find, from lower bound i.
FoundAt(i, k) == i <= Len(keys) /\ ~Less(k, keys[i])

\* The search of deliver_from_udp_peer.
Scan(k) == {i \in DOMAIN keys : Equal(keys[i], k)}

TupleInit == keys = << >>

\* A peer the search does not find gets a session: m_udpSessions[k] = session.
AddSession(k) ==
  /\ Scan(k) = {}
  /\ \E i \in LowerBounds(k) :
       keys' = IF FoundAt(i, k) THEN keys ELSE InsertAt(keys, i, k)

\* remove_session; a peer that is not found is left alone.
RemoveSession(k) ==
  \E i \in LowerBounds(k) :
    keys' = IF FoundAt(i, k) THEN RemoveAt(keys, i) ELSE keys

TupleNext == \E k \in Tuple : AddSession(k) \/ RemoveSession(k)

TupleSpec == TupleInit /\ [][TupleNext]_keys

\* The map keeps its keys in strict order.
Sorted == \A i, j \in DOMAIN keys : i < j => Less(keys[i], keys[j])

TupleInv == keys \in Seq(Tuple) /\ Sorted

\* Both searches find the same session, whatever the shape of the tree and the
\* order in which peers came and went: a session that deliver_from_udp_peer
\* uses can be removed, no session is entered twice or over another one's.
SearchesAgree ==
  \A k \in Tuple :
    /\ LowerBounds(k) # {}
    /\ \A i \in LowerBounds(k) :
         IF Scan(k) = {} THEN ~FoundAt(i, k) ELSE FoundAt(i, k) /\ Scan(k) = {i}

\* Which peers have a session, as deliver_from_udp_peer finds out.
SessionTable == INSTANCE Dictionary WITH
  DictKeys <- Tuple, DictValues <- {TRUE}, NoValue <- FALSE,
  dict <- [k \in Tuple |-> Scan(k) # {}]

\* The table is a dictionary of the peers: what the tree search of std::map
\* enters or erases is exactly what the comparison with == finds from then
\* on, and no other peer's session is touched.
ImplementsTable == SessionTable!DictSpec
=============================================================================
