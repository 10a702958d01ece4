---------------------------- MODULE MCRaRtProcess ----------------------------
(* RaRtProcess for TLC: contents of raRt.cfg and of rart_log.conf.         *)
EXTENDS RaRtProcess

MCCfgFiles ==
  {[ok |-> TRUE, set |-> "f1serveradr" :> "host1"], [ok |-> TRUE, set |-> <<>>],
   [ok |-> FALSE, set |-> <<>>]}

MCRuleLists  == {<<"file", "pipe">>}
ShippedRules == {<<"file", "stderr">>}   \* conf/rart_log.conf
=============================================================================
