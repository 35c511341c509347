--------------------------- MODULE MCSessionStatus -------------------------
(* SessionStatus for TLC. *)
EXTENDS SessionStatus, TLC

\* All sessions are created within the same 1000 seconds or so, in which the
\* first twelve characters of the id do not change: they share one name.
MCOneName == [s \in Sessions |-> CHOOSE n \in Names : TRUE]

MCSymmetry == Permutations(Sessions) \cup Permutations(Threads)
=============================================================================
