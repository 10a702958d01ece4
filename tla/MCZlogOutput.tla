---------------------------- MODULE MCZlogOutput ----------------------------
(* Logging and reloading for TLC: a reload that waits for log calls to     *)
(* leave (ZlogEnv, with its fairness) and the text that a log call makes   *)
(* (ZlogMessage).  The two share no variable, so one run checks both: part *)
(* says which one moves.                                                   *)
EXTENDS MCZlogEnv, MCZlogMessage

VARIABLE part

MCInit == part \in {"env", "message"} /\ Init /\ MessageInit

MCNext ==
  /\ UNCHANGED part
  /\ \/ part = "env" /\ Next /\ UNCHANGED messageVars
     \/ part = "message" /\ MessageNext /\ UNCHANGED vars

\* While the message moves no thread is in a call: nothing of Fairness is
\* enabled.
MCSpec == MCInit /\ [][MCNext]_<<vars, messageVars, part>> /\ Fairness
=============================================================================
