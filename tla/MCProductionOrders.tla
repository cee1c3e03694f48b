------------------------ MODULE MCProductionOrders ------------------------
(* Values for ProductionOrders small enough for TLC. *)
EXTENDS ProductionOrders, TLC

CONSTANTS m, n   \* two materials

TwoMaterials == <<m, n>>

Symmetry == Permutations(Requests)

=============================================================================
