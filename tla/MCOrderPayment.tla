--------------------------- MODULE MCOrderPayment ---------------------------
(* Symmetry sets for the model checking of OrderPayment. *)
EXTENDS OrderPayment, TLC

Symmetry == Permutations(Orders) \cup Permutations(Buyers) \cup Permutations(Requests)
=============================================================================
