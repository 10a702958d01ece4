---------------------------- MODULE MCZlogReload ----------------------------
(* The configuration of zlog for TLC: its replacement while threads log    *)
(* (ZlogEnv) and the reading of the file that makes one (ZlogConf).  The   *)
(* two share no variable, so one run checks both: part says which moves.   *)
EXTENDS MCZlogEnv, MCZlogConf

VARIABLE part

MCInit ==
  /\ part \in {"env", "conf"}
  /\ Init /\ ConfInit
  /\ part = "env" => ~daemon      \* the one choice of ConfInit

MCNext ==
  /\ UNCHANGED part
  /\ \/ part = "env" /\ Next /\ UNCHANGED readVars
     \/ part = "conf" /\ ConfNext /\ UNCHANGED vars

MCSpec == MCInit /\ [][MCNext]_<<vars, readVars, part>>
=============================================================================
