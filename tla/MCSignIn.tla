------------------------------- MODULE MCSignIn -------------------------------
(* An instance of SignIn for TLC. *)
EXTENDS SignIn, TLC

Symmetry == Permutations(Secrets) \cup Permutations(Requests) \cup Permutations(Addresses)
            \cup Permutations(Accounts)
=============================================================================
