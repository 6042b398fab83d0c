--------------------------- MODULE MCProductCache ---------------------------
(* Symmetry sets for the model checking of ProductCache. *)
EXTENDS ProductCache, TLC

Symmetry == Permutations(Requests) \cup Permutations(Writers)
=============================================================================
