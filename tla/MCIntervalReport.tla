-------------------------- MODULE MCIntervalReport --------------------------
(* IntervalReport on small instances.                                      *)
EXTENDS IntervalReport
=============================================================================
