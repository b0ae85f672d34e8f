----------------------------- MODULE MCP5Monitor ----------------------------
(* Instances of P5Monitor for TLC. *)
EXTENDS P5Monitor
CONSTANTS t1, t2
=============================================================================
