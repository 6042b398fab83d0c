------------------------------ MODULE MCOrderView ------------------------------
(* An instance of OrderView for TLC. *)
EXTENDS OrderView, TLC

\* A pickup window, and a delivery before or after its end, alone or with it.
Schedules == {<<1, None>>, <<None, 0>>, <<None, 1>>, <<1, 1>>}

Symmetry == Permutations(Requests)
=============================================================================
