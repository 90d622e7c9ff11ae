--------------------------- MODULE MCResponseTime ---------------------------
(* ResponseTime on small instances.  The flows are interchangeable.        *)
EXTENDS ResponseTime, TLC

FlowSymmetry == Permutations(Flows)
=============================================================================
