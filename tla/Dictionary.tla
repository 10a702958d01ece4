----------------------------- MODULE Dictionary -----------------------------
(***************************************************************************)
(* What a table of zlog promises: a value for every key that was put and   *)
(* not removed since. Putting may fail for want of memory and then changes *)
(* nothing. The diagnostic context of a thread, the categories and the     *)
(* record functions are such tables.                                       *)
(***************************************************************************)
CONSTANTS DictKeys, DictValues, NoValue

VARIABLE dict

DictInit == dict = [k \in DictKeys |-> NoValue]

DictPut(k, v) == dict' = [dict EXCEPT ![k] = v]
DictRemove(k) == dict' = [dict EXCEPT ![k] = NoValue]
DictClean == dict' = [k \in DictKeys |-> NoValue]

DictNext ==
  \/ \E k \in DictKeys : (\E v \in DictValues : DictPut(k, v)) \/ DictRemove(k)
  \/ DictClean

DictSpec == DictInit /\ [][DictNext]_dict
=============================================================================
