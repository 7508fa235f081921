------------------------- MODULE MCSessionOperator -------------------------
(* SessionOperator on a small instance. *)
EXTENDS SessionOperator, TLC

\* Sessions are interchangeable, and so are workers (safety runs only).
Symmetry == Permutations(Sessions) \cup Permutations(Workers)
=============================================================================
