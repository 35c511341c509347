--------------------------- MODULE MCTraceBuffer ---------------------------
(* TraceBuffer for TLC. *)
EXTENDS TraceBuffer, TLC

MCSymmetry == Permutations(Calls)
=============================================================================
