-------------------------- MODULE MCOrderFulfilment --------------------------
(* Symmetry sets for the model checking of OrderFulfilment. *)
EXTENDS OrderFulfilment, TLC

Symmetry == Permutations(Requests) \cup Permutations(IssueIds)
=============================================================================
