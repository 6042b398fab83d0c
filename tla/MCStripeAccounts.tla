---------------------------- MODULE MCStripeAccounts ----------------------------
(* An instance of StripeAccounts for TLC. *)
EXTENDS StripeAccounts, TLC

Symmetry == Permutations(Users) \cup Permutations(Requests) \cup Permutations(Ids)
=============================================================================
