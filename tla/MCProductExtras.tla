-------------------------- MODULE MCProductExtras --------------------------
(* ProductExtras for TLC: two products of one seller. *)
EXTENDS ProductExtras, TLC

CONSTANT sellerA

MC_Sellers == [p \in Products |-> sellerA]

Symmetry == Permutations(Products)
=============================================================================
