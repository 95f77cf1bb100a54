------------------------------- MODULE MCShop -------------------------------
(***************************************************************************)
(* Small instances of Shop for TLC.                                        *)
(***************************************************************************)
EXTENDS Shop, TLC

TwoTours == {{"catalog", "cart"}, {"admin/products"}}
Symmetry == Permutations(Skus)
=============================================================================
