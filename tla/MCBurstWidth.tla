---------------------------- MODULE MCBurstWidth ----------------------------
(* SplitPcap and BurstWidth on small captures: two hosts of one network    *)
(* and one each of two others, seconds of three milliseconds.             *)
EXTENDS BurstWidth

MCSources ==
  {[net |-> 1, host |-> 1], [net |-> 1, host |-> 2], [net |-> 2, host |-> 1],
   [net |-> 3, host |-> 1]}

MCSource == {[net |-> 1, host |-> 1]}
=============================================================================
