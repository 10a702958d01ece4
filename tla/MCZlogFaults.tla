---------------------------- MODULE MCZlogFaults ----------------------------
(* zlog for TLC when memory is short, calls fail and processes die: the    *)
(* environment (ZlogEnv), the diagnostic context of a thread (ZlogMdc) and *)
(* the rotation of files (ZlogRotate).  The three share no variable, so    *)
(* one run checks them all: part says which one moves.                     *)
EXTENDS MCZlogEnv, ZlogMdc, ZlogRotate

MCHash   == 1 :> 0 @@ 2 :> 2 @@ 3 :> 1
MCProcOf == 1 :> 1 @@ 2 :> 1 @@ 3 :> 2

VARIABLE part

MCInit == part \in {"env", "mdc", "rotate"} /\ Init /\ MdcInit /\ RotateInit

MCNext ==
  /\ UNCHANGED part
  /\ \/ part = "env" /\ Next /\ UNCHANGED <<mdcVars, rotateVars>>
     \/ part = "mdc" /\ MdcNext /\ UNCHANGED <<vars, rotateVars>>
     \/ part = "rotate" /\ RotateNext /\ UNCHANGED <<vars, mdcVars>>

MCSpec == MCInit /\ [][MCNext]_<<vars, mdcVars, rotateVars, part>>
=============================================================================
