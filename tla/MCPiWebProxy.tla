---------------------------- MODULE MCPiWebProxy ----------------------------
(* PiWebProxy for TLC: no definitions of its own. *)
EXTENDS PiWebProxy
=============================================================================
