---------------------------- MODULE MCStorefront ----------------------------
(* Instances of Storefront: one tab, or two tabs of one browser. *)
EXTENDS Storefront, TLC

CONSTANTS p1, p2, tabA, tabB, browserA

MC_Cards == {[price |-> 1, currency |-> "UAH"], [price |-> 1, currency |-> "USD"]}

TwoTabs == (tabA :> browserA) @@ (tabB :> browserA)

OneTab == (tabA :> browserA)

Symmetry == Permutations({p1, p2})

TabSymmetry == Symmetry \cup Permutations({tabA, tabB})
=============================================================================
