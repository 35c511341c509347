--------------------------- MODULE MCGatewayMain ---------------------------
(* GatewayMain for TLC. *)
EXTENDS GatewayMain

\* One id is known to two providers, and one to the agent-runner as well.
MCIds == 1..3
MCProviders == <<{2}, {2, 3}>>
MCRemoteModels == <<3>>
=============================================================================
