----------------------------- MODULE MCSsdRing ------------------------------
(* SsdRing on small instances.                                             *)
EXTENDS SsdRing
=============================================================================
