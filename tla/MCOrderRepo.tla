---------------------------- MODULE MCOrderRepo -----------------------------
(* OrderRepo for TLC: two positions in one currency whose sum just fits, and
   one more that makes every other total overflow. *)
EXTENDS OrderRepo, TLC

CONSTANTS i1, i2, i3, uah, eur

MCPriceOf(i) == IF i = i1 THEN 1 ELSE 2
MCCurrencyOf(i) == IF i = i3 THEN eur ELSE uah

Symmetry == Permutations(Orders)
=============================================================================
