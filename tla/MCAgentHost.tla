---------------------------- MODULE MCAgentHost ----------------------------
(* AgentHost for TLC. *)
EXTENDS AgentHost, TLC

MCOwnNames == [s \in Sessions |-> s]

MCSymmetry == Permutations(Sessions) \cup Permutations(Addresses)
=============================================================================
