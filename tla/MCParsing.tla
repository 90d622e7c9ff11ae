----------------------------- MODULE MCParsing ------------------------------
(* Start-up, parsing and measurement on a small instance.                  *)
EXTENDS Parsing
=============================================================================
