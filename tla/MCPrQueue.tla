----------------------------- MODULE MCPrQueue ------------------------------
(* PrQueue on small instances.                                             *)
EXTENDS PrQueue
=============================================================================
