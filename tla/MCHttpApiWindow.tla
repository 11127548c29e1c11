-------------------------- MODULE MCHttpApiWindow --------------------------
(* HttpApiWindow served by two interchangeable goroutines. *)
EXTENDS HttpApiWindow, TLC

CONSTANTS r1, r2

Goroutines == {r1, r2}

Symmetry == Permutations(Goroutines)

=============================================================================
