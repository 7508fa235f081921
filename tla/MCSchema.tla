------------------------------- MODULE MCSchema -------------------------------
(* The schema tracker's model with symmetry for TLC. *)
EXTENDS Schema, TLC

Symmetry == Permutations(Sessions) \cup Permutations(Tables)
=============================================================================
