------------------------------ MODULE MCCatalogue ------------------------------
(* An instance of Catalogue for TLC. *)
EXTENDS Catalogue, TLC

Symmetry ==
  Permutations(Users) \cup Permutations(Products) \cup Permutations(Files) \cup
  Permutations(Requests)
=============================================================================
