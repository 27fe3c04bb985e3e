------------------------------- MODULE MCPipe -------------------------------
(* Small instances of Pipe: no limit, and a limit of zero bytes. *)
EXTENDS Pipe, TLC

MCLimits == {-1, 0}

\* Goroutines of a kind are interchangeable; used by the safety run only.
Symmetry == Permutations(Writers) \cup Permutations(Readers)
=============================================================================
