----------------------------- MODULE MCRaRtLive -----------------------------
(* What must happen in raRt, for TLC: the sessions move their packets      *)
(* (RouterSession) and a stop ends the process (RaRtProcess).  The two     *)
(* share no variable, so one run checks both: part says which one moves.   *)
EXTENDS MCRouterSession, MCRaRtProcess

VARIABLE part

MCInit == part \in {"sessions", "process"} /\ Init /\ ProcessInit

ProcessMoves(A) == part = "process" /\ A /\ UNCHANGED <<vars, part>>

MCNext ==
  \/ part = "sessions" /\ Next /\ UNCHANGED <<processVars, part>>
  \/ ProcessMoves(ProcessNext)

\* Fairness and ProcessFairness; RunHandler and Complete have nothing to do
\* while the process moves.
MCFairness ==
  /\ Fairness
  /\ WF_processVars(part = "process" /\ MainStep)
  /\ WF_processVars(part = "process" /\ ReloadStep)

MCSpec == MCInit /\ [][MCNext]_<<vars, processVars, part>> /\ MCFairness
=============================================================================
