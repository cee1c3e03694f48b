------------------------ MODULE MCWarehouseTransfer ------------------------
(* Values for WarehouseTransfer small enough for TLC. *)
EXTENDS WarehouseTransfer, TLC

Symmetry == Permutations(Requests) \cup Permutations(Lines)
            \cup Permutations(Locations)

=============================================================================
