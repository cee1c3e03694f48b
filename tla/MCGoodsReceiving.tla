-------------------------- MODULE MCGoodsReceiving --------------------------
EXTENDS GoodsReceiving, TLC

CONSTANTS l1, l2, x, g1, g2, g3, g4

MCOrdered == l1 :> 2 @@ l2 :> 1
MCAgainst == g1 :> l1 @@ g2 :> l1 @@ g3 :> l2 @@ g4 :> x
MCQuantity == g1 :> 1 @@ g2 :> 2 @@ g3 :> 1 @@ g4 :> 1
MCOffered == Operations

Symmetry == Permutations(Requests) \cup Permutations(Receipts)
=============================================================================
