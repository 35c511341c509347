---------------------------- MODULE MCAuthBridge ----------------------------
(* AuthBridge for TLC: no definitions of its own. *)
EXTENDS AuthBridge
=============================================================================
