--------------------------- MODULE MCSessionTable ---------------------------
(* The table of sessions for TLC: the sessions themselves (RouterSession)  *)
(* and the order of the table's keys (AdrTuple).  The two share no         *)
(* variable, so one run checks both: part says which one moves.            *)
EXTENDS MCRouterSession, AdrTuple

VARIABLE part

MCInit == part \in {"sessions", "keys"} /\ Init /\ TupleInit

MCNext ==
  /\ UNCHANGED part
  /\ \/ part = "sessions" /\ Next /\ UNCHANGED keys
     \/ part = "keys" /\ TupleNext /\ UNCHANGED vars

MCSpec == MCInit /\ [][MCNext]_<<vars, keys, part>>
=============================================================================
